---- MODULE Spec2Model ----
(***************************************************************************)
(* Scoring and normalization engine of MindSafe                            *)
(* (src/evaluation/scoring.py over src/ai-agents/evaluation/config.py).   *)
(*                                                                         *)
(* Raw metric values, configured bounds and ages are kept in hundredths    *)
(* (0.15 is 15, 8 is 800): every configured number is a whole number of    *)
(* hundredths and the code only compares, subtracts and divides them.      *)
(* Scores are exact fractions; Python's float results that are not numbers *)
(* (inf, nan) and a raised ZeroDivisionError are separate values.          *)
(***************************************************************************)
EXTENDS Integers, Sequences, FiniteSets, TLC

VARIABLES
    METRIC_CONFIG,  \* the module-level metric table of config.py
    op,             \* the engine operation that ran last
    metric_name,    \* normalize_metric: argument
    age_band,       \* argument of every function but assign_age_band
    value,          \* normalize_metric: argument, in hundredths
    result,         \* returned number: normalized score or composite score
    child_age,      \* assign_age_band: argument, in hundredths of a year
    band,           \* assign_age_band: returned band code
    DEV_WEIGHTS,        \* the module-level developmental weight table
    BRAINROT_WEIGHTS,   \* the module-level brainrot weight table
    raw_metrics,        \* argument: metric name -> raw value in hundredths
    dimension_scores,   \* argument or returned: dimension name -> score
    recommendations,    \* generate_recommendations: returned lists
    dev_score,          \* interpret_scores: argument
    brainrot_index,     \* interpret_scores: argument
    interpretations,    \* interpret_scores: returned labels
    llm_client,         \* evaluate_video: argument, "None" or a client
    api_key_set,        \* whether the environment holds OPENROUTER_API_KEY
    evaluation,         \* evaluate_video: how the call went
    supabase,           \* api.py: the Supabase client and its video_eval table
    request,            \* GET /evaluate: the query parameters
    response            \* GET /evaluate: the status and JSON body sent

vars == <<METRIC_CONFIG, op, metric_name, age_band, value, result, child_age, band,
          DEV_WEIGHTS, BRAINROT_WEIGHTS, raw_metrics, dimension_scores,
          recommendations, dev_score, brainrot_index, interpretations,
          llm_client, api_key_set, evaluation, supabase, request, response>>

----------------------------------------------------------------------------
(* Bounds of the explored inputs.                                          *)

\* score maps with gaps hold at most MaxPresent dimensions
MaxPresent == 2
\* raw values are taken up to Radius hundredths on both sides of each bound
Radius == 2
\* and FarOut hundredths below the smallest and above the largest bound
FarOut == 2500
\* bounds of the arbitrary metric specs are multiples of ten up to 10 * MaxPoint
MaxPoint == 3

----------------------------------------------------------------------------
(* Python float arithmetic: a value is a fraction, +-infinity, nan, or the *)
(* ZeroDivisionError that a division raised.                               *)

Abs(x) == IF x < 0 THEN -x ELSE x

RECURSIVE GCD(_, _)
GCD(a, b) == IF b = 0 THEN a ELSE GCD(b, a % b)

Rat(n, d) ==
    LET s == IF d < 0 THEN -1 ELSE 1
        g == GCD(Abs(n), Abs(d))
    IN  [k |-> "num", n |-> (s * n) \div g, d |-> (s * d) \div g]

Fin(x) == [k |-> "num", n |-> x, d |-> 1]
INF == [k |-> "inf", n |-> 1, d |-> 0]
NEGINF == [k |-> "inf", n |-> -1, d |-> 0]
NAN == [k |-> "nan", n |-> 0, d |-> 0]
ZeroDivisionError == [k |-> "ZeroDivisionError", n |-> 0, d |-> 0]

Sign(a) == IF a.n > 0 THEN 1 ELSE IF a.n < 0 THEN -1 ELSE 0

FNeg(a) == IF a.k \in {"num", "inf"} THEN [a EXCEPT !.n = -a.n] ELSE a

FAdd(a, b) ==
    IF a.k = "ZeroDivisionError" \/ b.k = "ZeroDivisionError" THEN ZeroDivisionError
    ELSE IF a.k = "nan" \/ b.k = "nan" THEN NAN
    ELSE IF a.k = "inf" /\ b.k = "inf" THEN (IF a.n = b.n THEN a ELSE NAN)
    ELSE IF a.k = "inf" THEN a
    ELSE IF b.k = "inf" THEN b
    ELSE LET g == GCD(a.d, b.d)
         IN  Rat(a.n * (b.d \div g) + b.n * (a.d \div g), (a.d \div g) * b.d)

FSub(a, b) == FAdd(a, FNeg(b))

FMul(a, b) ==
    IF a.k = "ZeroDivisionError" \/ b.k = "ZeroDivisionError" THEN ZeroDivisionError
    ELSE IF a.k = "nan" \/ b.k = "nan" THEN NAN
    ELSE IF a.k = "inf" \/ b.k = "inf"
         THEN (IF Sign(a) * Sign(b) = 0 THEN NAN
               ELSE IF Sign(a) * Sign(b) > 0 THEN INF ELSE NEGINF)
    ELSE LET g == GCD(Abs(a.n), b.d)
             h == GCD(Abs(b.n), a.d)
         IN  Rat((a.n \div g) * (b.n \div h), (a.d \div h) * (b.d \div g))

FDiv(a, b) ==
    IF a.k = "ZeroDivisionError" \/ b.k = "ZeroDivisionError" THEN ZeroDivisionError
    ELSE IF b.k = "num" /\ b.n = 0 THEN ZeroDivisionError
    ELSE IF a.k = "nan" \/ b.k = "nan" THEN NAN
    ELSE IF a.k = "inf" /\ b.k = "inf" THEN NAN
    ELSE IF a.k = "inf" THEN (IF Sign(a) * Sign(b) > 0 THEN INF ELSE NEGINF)
    ELSE IF b.k = "inf" THEN Fin(0)
    ELSE FMul(a, Rat(b.d, b.n))

\* an/ad <= bn/bd for ad, bd > 0, by whole parts and then remainders
RECURSIVE RatLe(_, _, _, _)
RatLe(an, ad, bn, bd) ==
    IF an \div ad # bn \div bd THEN an \div ad < bn \div bd
    ELSE IF an % ad = 0 THEN TRUE
    ELSE IF bn % bd = 0 THEN FALSE
    ELSE RatLe(bd, bn % bd, ad, an % ad)

\* a <= b and a < b as Python compares floats: false when either is nan
FLe(a, b) ==
    /\ a.k \in {"num", "inf"} /\ b.k \in {"num", "inf"}
    /\ IF a.k = "inf" THEN a.n < 0 \/ (b.k = "inf" /\ b.n > 0)
       ELSE IF b.k = "inf" THEN b.n > 0
       ELSE RatLe(a.n, a.d, b.n, b.d)

FLt(a, b) ==
    /\ a.k \in {"num", "inf"} /\ b.k \in {"num", "inf"}
    /\ IF a.k = "inf" THEN a.n < 0 /\ ~(b.k = "inf" /\ b.n < 0)
       ELSE IF b.k = "inf" THEN b.n > 0
       ELSE ~RatLe(b.n, b.d, a.n, a.d)

----------------------------------------------------------------------------
(* Configuration (config.py), in hundredths.                               *)

\* the second band starts before the first one ends
AGE_BANDS_Overlapping == <<
    [code |-> "G1_0_2", min_age |-> 0,   max_age |-> 200],
    [code |-> "G2_2_3", min_age |-> 150, max_age |-> 300],
    [code |-> "G3_3_5", min_age |-> 300, max_age |-> 500],
    [code |-> "G4_5_8", min_age |-> 500, max_age |-> 800] >>

AGE_BANDS == <<
    [code |-> "G1_0_2", min_age |-> 0,   max_age |-> 200],
    [code |-> "G2_2_3", min_age |-> 200, max_age |-> 300],
    [code |-> "G3_3_5", min_age |-> 300, max_age |-> 500],
    [code |-> "G4_5_8", min_age |-> 500, max_age |-> 800] >>

ConfiguredMetrics ==
  "cuts_per_minute" :> (
      "G1_0_2" :> [ideal_low |-> 0, ideal_high |-> 600, hard_max |-> 2000, direction |-> "lower_better"]
   @@ "G2_2_3" :> [ideal_low |-> 0, ideal_high |-> 800, hard_max |-> 2500, direction |-> "lower_better"]
   @@ "G3_3_5" :> [ideal_low |-> 400, ideal_high |-> 1200, hard_max |-> 3000, direction |-> "mid"]
   @@ "G4_5_8" :> [ideal_low |-> 400, ideal_high |-> 1500, hard_max |-> 3500, direction |-> "mid"])
  @@
  "avg_shot_length" :> (
      "G1_0_2" :> [ideal_low |-> 800, ideal_high |-> 10000, hard_min |-> 200, direction |-> "higher_better"]
   @@ "G2_2_3" :> [ideal_low |-> 600, ideal_high |-> 10000, hard_min |-> 200, direction |-> "higher_better"]
   @@ "G3_3_5" :> [ideal_low |-> 400, ideal_high |-> 2000, hard_min |-> 100, direction |-> "mid"]
   @@ "G4_5_8" :> [ideal_low |-> 300, ideal_high |-> 1500, hard_min |-> 100, direction |-> "mid"])
  @@
  "motion_high_frac" :> (
      "G1_0_2" :> [ideal_low |-> 0, ideal_high |-> 20, hard_max |-> 60, direction |-> "lower_better"]
   @@ "G2_2_3" :> [ideal_low |-> 0, ideal_high |-> 30, hard_max |-> 70, direction |-> "lower_better"]
   @@ "G3_3_5" :> [ideal_low |-> 10, ideal_high |-> 40, hard_max |-> 80, direction |-> "mid"]
   @@ "G4_5_8" :> [ideal_low |-> 10, ideal_high |-> 50, hard_max |-> 90, direction |-> "mid"])
  @@
  "loudness_mean" :> (
      "G1_0_2" :> [ideal_low |-> -2000, ideal_high |-> -1000, hard_max |-> -500, direction |-> "mid"]
   @@ "G2_2_3" :> [ideal_low |-> -2000, ideal_high |-> -800, hard_max |-> -300, direction |-> "mid"]
   @@ "G3_3_5" :> [ideal_low |-> -1800, ideal_high |-> -600, hard_max |-> -200, direction |-> "mid"]
   @@ "G4_5_8" :> [ideal_low |-> -1800, ideal_high |-> -500, hard_max |-> 0, direction |-> "mid"])
  @@
  "music_ratio" :> (
      "G1_0_2" :> [ideal_low |-> 30, ideal_high |-> 70, hard_max |-> 100, direction |-> "mid"]
   @@ "G2_2_3" :> [ideal_low |-> 25, ideal_high |-> 65, hard_max |-> 100, direction |-> "mid"]
   @@ "G3_3_5" :> [ideal_low |-> 20, ideal_high |-> 60, hard_max |-> 100, direction |-> "mid"]
   @@ "G4_5_8" :> [ideal_low |-> 15, ideal_high |-> 50, hard_max |-> 100, direction |-> "mid"])
  @@
  "sfx_rate" :> (
      "G1_0_2" :> [ideal_low |-> 0, ideal_high |-> 200, hard_max |-> 800, direction |-> "lower_better"]
   @@ "G2_2_3" :> [ideal_low |-> 0, ideal_high |-> 300, hard_max |-> 1000, direction |-> "lower_better"]
   @@ "G3_3_5" :> [ideal_low |-> 100, ideal_high |-> 500, hard_max |-> 1500, direction |-> "mid"]
   @@ "G4_5_8" :> [ideal_low |-> 100, ideal_high |-> 600, hard_max |-> 2000, direction |-> "mid"])
  @@
  "adjacent_similarity_mean" :> (
      "G1_0_2" :> [ideal_low |-> 70, ideal_high |-> 100, hard_min |-> 40, direction |-> "higher_better"]
   @@ "G2_2_3" :> [ideal_low |-> 65, ideal_high |-> 100, hard_min |-> 35, direction |-> "higher_better"]
   @@ "G3_3_5" :> [ideal_low |-> 60, ideal_high |-> 90, hard_min |-> 30, direction |-> "higher_better"]
   @@ "G4_5_8" :> [ideal_low |-> 55, ideal_high |-> 85, hard_min |-> 25, direction |-> "higher_better"])
  @@
  "topic_jumps" :> (
      "G1_0_2" :> [ideal_low |-> 0, ideal_high |-> 10, hard_max |-> 30, direction |-> "lower_better"]
   @@ "G2_2_3" :> [ideal_low |-> 0, ideal_high |-> 15, hard_max |-> 40, direction |-> "lower_better"]
   @@ "G3_3_5" :> [ideal_low |-> 0, ideal_high |-> 20, hard_max |-> 50, direction |-> "lower_better"]
   @@ "G4_5_8" :> [ideal_low |-> 0, ideal_high |-> 25, hard_max |-> 60, direction |-> "lower_better"])
  @@
  "type_token_ratio" :> (
      "G1_0_2" :> [ideal_low |-> 30, ideal_high |-> 50, hard_min |-> 10, direction |-> "mid"]
   @@ "G2_2_3" :> [ideal_low |-> 35, ideal_high |-> 55, hard_min |-> 15, direction |-> "mid"]
   @@ "G3_3_5" :> [ideal_low |-> 40, ideal_high |-> 65, hard_min |-> 20, direction |-> "higher_better"]
   @@ "G4_5_8" :> [ideal_low |-> 45, ideal_high |-> 75, hard_min |-> 25, direction |-> "higher_better"])
  @@
  "mean_utterance_length" :> (
      "G1_0_2" :> [ideal_low |-> 300, ideal_high |-> 600, hard_max |-> 1200, direction |-> "mid"]
   @@ "G2_2_3" :> [ideal_low |-> 400, ideal_high |-> 800, hard_max |-> 1500, direction |-> "mid"]
   @@ "G3_3_5" :> [ideal_low |-> 500, ideal_high |-> 1000, hard_max |-> 2000, direction |-> "mid"]
   @@ "G4_5_8" :> [ideal_low |-> 600, ideal_high |-> 1200, hard_max |-> 2500, direction |-> "mid"])
  @@
  "tier2_vocab_frac" :> (
      "G1_0_2" :> [ideal_low |-> 0, ideal_high |-> 10, hard_max |-> 30, direction |-> "lower_better"]
   @@ "G2_2_3" :> [ideal_low |-> 5, ideal_high |-> 15, hard_max |-> 40, direction |-> "mid"]
   @@ "G3_3_5" :> [ideal_low |-> 10, ideal_high |-> 25, hard_max |-> 50, direction |-> "mid"]
   @@ "G4_5_8" :> [ideal_low |-> 15, ideal_high |-> 35, hard_max |-> 60, direction |-> "higher_better"])
  @@
  "question_rate" :> (
      "G1_0_2" :> [ideal_low |-> 100, ideal_high |-> 400, hard_max |-> 1000, direction |-> "mid"]
   @@ "G2_2_3" :> [ideal_low |-> 200, ideal_high |-> 500, hard_max |-> 1200, direction |-> "mid"]
   @@ "G3_3_5" :> [ideal_low |-> 200, ideal_high |-> 600, hard_max |-> 1500, direction |-> "mid"]
   @@ "G4_5_8" :> [ideal_low |-> 200, ideal_high |-> 700, hard_max |-> 1800, direction |-> "mid"])
  @@
  "prosocial_ratio" :> (
      "G1_0_2" :> [ideal_low |-> 70, ideal_high |-> 100, hard_min |-> 30, direction |-> "higher_better"]
   @@ "G2_2_3" :> [ideal_low |-> 65, ideal_high |-> 100, hard_min |-> 30, direction |-> "higher_better"]
   @@ "G3_3_5" :> [ideal_low |-> 60, ideal_high |-> 100, hard_min |-> 25, direction |-> "higher_better"]
   @@ "G4_5_8" :> [ideal_low |-> 55, ideal_high |-> 100, hard_min |-> 20, direction |-> "higher_better"])
  @@
  "aggression_rate" :> (
      "G1_0_2" :> [ideal_low |-> 0, ideal_high |-> 50, hard_max |-> 300, direction |-> "lower_better"]
   @@ "G2_2_3" :> [ideal_low |-> 0, ideal_high |-> 100, hard_max |-> 400, direction |-> "lower_better"]
   @@ "G3_3_5" :> [ideal_low |-> 0, ideal_high |-> 150, hard_max |-> 500, direction |-> "lower_better"]
   @@ "G4_5_8" :> [ideal_low |-> 0, ideal_high |-> 200, hard_max |-> 600, direction |-> "lower_better"])
  @@
  "sel_strategy_rate" :> (
      "G1_0_2" :> [ideal_low |-> 50, ideal_high |-> 300, hard_max |-> 1000, direction |-> "higher_better"]
   @@ "G2_2_3" :> [ideal_low |-> 100, ideal_high |-> 400, hard_max |-> 1200, direction |-> "higher_better"]
   @@ "G3_3_5" :> [ideal_low |-> 150, ideal_high |-> 500, hard_max |-> 1500, direction |-> "higher_better"]
   @@ "G4_5_8" :> [ideal_low |-> 200, ideal_high |-> 600, hard_max |-> 1800, direction |-> "higher_better"])
  @@
  "emotion_word_rate" :> (
      "G1_0_2" :> [ideal_low |-> 100, ideal_high |-> 400, hard_max |-> 1000, direction |-> "mid"]
   @@ "G2_2_3" :> [ideal_low |-> 150, ideal_high |-> 500, hard_max |-> 1200, direction |-> "mid"]
   @@ "G3_3_5" :> [ideal_low |-> 200, ideal_high |-> 600, hard_max |-> 1500, direction |-> "higher_better"]
   @@ "G4_5_8" :> [ideal_low |-> 250, ideal_high |-> 700, hard_max |-> 1800, direction |-> "higher_better"])
  @@
  "mental_state_word_rate" :> (
      "G1_0_2" :> [ideal_low |-> 50, ideal_high |-> 200, hard_max |-> 600, direction |-> "mid"]
   @@ "G2_2_3" :> [ideal_low |-> 100, ideal_high |-> 300, hard_max |-> 800, direction |-> "mid"]
   @@ "G3_3_5" :> [ideal_low |-> 150, ideal_high |-> 400, hard_max |-> 1000, direction |-> "higher_better"]
   @@ "G4_5_8" :> [ideal_low |-> 200, ideal_high |-> 500, hard_max |-> 1200, direction |-> "higher_better"])
  @@
  "fantasy_rate" :> (
      "G1_0_2" :> [ideal_low |-> 20, ideal_high |-> 60, hard_max |-> 90, direction |-> "mid"]
   @@ "G2_2_3" :> [ideal_low |-> 30, ideal_high |-> 70, hard_max |-> 95, direction |-> "mid"]
   @@ "G3_3_5" :> [ideal_low |-> 30, ideal_high |-> 80, hard_max |-> 100, direction |-> "mid"]
   @@ "G4_5_8" :> [ideal_low |-> 20, ideal_high |-> 70, hard_max |-> 100, direction |-> "mid"])
  @@
  "impossible_event_rate" :> (
      "G1_0_2" :> [ideal_low |-> 0, ideal_high |-> 200, hard_max |-> 800, direction |-> "lower_better"]
   @@ "G2_2_3" :> [ideal_low |-> 0, ideal_high |-> 300, hard_max |-> 1000, direction |-> "lower_better"]
   @@ "G3_3_5" :> [ideal_low |-> 0, ideal_high |-> 400, hard_max |-> 1200, direction |-> "mid"]
   @@ "G4_5_8" :> [ideal_low |-> 0, ideal_high |-> 500, hard_max |-> 1500, direction |-> "mid"])
  @@
  "direct_address_rate" :> (
      "G1_0_2" :> [ideal_low |-> 300, ideal_high |-> 800, hard_max |-> 2000, direction |-> "higher_better"]
   @@ "G2_2_3" :> [ideal_low |-> 200, ideal_high |-> 600, hard_max |-> 1500, direction |-> "higher_better"]
   @@ "G3_3_5" :> [ideal_low |-> 100, ideal_high |-> 500, hard_max |-> 1200, direction |-> "mid"]
   @@ "G4_5_8" :> [ideal_low |-> 50, ideal_high |-> 300, hard_max |-> 1000, direction |-> "mid"])
  @@
  "interactive_block_count" :> (
      "G1_0_2" :> [ideal_low |-> 300, ideal_high |-> 1000, hard_max |-> 3000, direction |-> "higher_better"]
   @@ "G2_2_3" :> [ideal_low |-> 200, ideal_high |-> 800, hard_max |-> 2500, direction |-> "higher_better"]
   @@ "G3_3_5" :> [ideal_low |-> 100, ideal_high |-> 600, hard_max |-> 2000, direction |-> "mid"]
   @@ "G4_5_8" :> [ideal_low |-> 0, ideal_high |-> 400, hard_max |-> 1500, direction |-> "mid"])


BandCodes == {AGE_BANDS[i].code : i \in 1..Len(AGE_BANDS)}

----------------------------------------------------------------------------
(* scoring.py                                                              *)

\* the scan with the upper age bound taken inclusive
RECURSIVE ScanAgeBands_Inclusive(_, _)
ScanAgeBands_Inclusive(i, age) ==
    IF i > Len(AGE_BANDS) THEN "G4_5_8"
    ELSE IF AGE_BANDS[i].min_age <= age /\ age <= AGE_BANDS[i].max_age
         THEN AGE_BANDS[i].code
         ELSE ScanAgeBands_Inclusive(i + 1, age)

RECURSIVE ScanAgeBands(_, _)
ScanAgeBands(i, age) ==
    IF i > Len(AGE_BANDS) THEN "G4_5_8"
    ELSE IF AGE_BANDS[i].min_age <= age /\ age < AGE_BANDS[i].max_age
         THEN AGE_BANDS[i].code
         ELSE ScanAgeBands(i + 1, age)

assign_age_band(age) == ScanAgeBands(1, age)

\* config.get(key, default)
Get(config, key, default) ==
    IF key \in DOMAIN config THEN Fin(config[key]) ELSE default

Half == Rat(1, 2)
P08 == Rat(8, 10)
P02 == Rat(2, 10)

\* higher_better with the ideal range tested before the clamps
NormalizeHigherBetter_RangeFirst(config, v) ==
    LET ideal_low == Get(config, "ideal_low", Fin(0))
        ideal_high == Get(config, "ideal_high", Fin(100))
        hard_min == Get(config, "hard_min", Fin(0))
    IN  IF FLe(ideal_low, v) /\ FLe(v, ideal_high)
        THEN FAdd(P08, FMul(P02, FDiv(FSub(v, ideal_low), FSub(ideal_high, ideal_low))))
        ELSE IF FLe(ideal_high, v) THEN Fin(1)
        ELSE IF FLe(v, hard_min) THEN Fin(0)
        ELSE FMul(P08, FDiv(FSub(v, hard_min), FSub(ideal_low, hard_min)))

\* higher_better with the ideal range scored from 0.5 instead of 0.8
NormalizeHigherBetter_Half(config, v) ==
    LET ideal_low == Get(config, "ideal_low", Fin(0))
        ideal_high == Get(config, "ideal_high", Fin(100))
        hard_min == Get(config, "hard_min", Fin(0))
    IN  IF FLe(ideal_high, v) THEN Fin(1)
        ELSE IF FLe(v, hard_min) THEN Fin(0)
        ELSE IF FLe(ideal_low, v)
             THEN FAdd(Half, FMul(Half, FDiv(FSub(v, ideal_low), FSub(ideal_high, ideal_low))))
        ELSE FMul(P08, FDiv(FSub(v, hard_min), FSub(ideal_low, hard_min)))

NormalizeHigherBetter(config, v) ==
    LET ideal_low == Get(config, "ideal_low", Fin(0))
        ideal_high == Get(config, "ideal_high", Fin(100))
        hard_min == Get(config, "hard_min", Fin(0))
    IN  IF FLe(ideal_high, v) THEN Fin(1)
        ELSE IF FLe(v, hard_min) THEN Fin(0)
        ELSE IF FLe(ideal_low, v)
             THEN FAdd(P08, FMul(P02, FDiv(FSub(v, ideal_low), FSub(ideal_high, ideal_low))))
        ELSE FMul(P08, FDiv(FSub(v, hard_min), FSub(ideal_low, hard_min)))

\* lower_better with the ideal range scored upwards
NormalizeLowerBetter_Rising(config, v) ==
    LET ideal_low == Get(config, "ideal_low", Fin(0))
        ideal_high == Get(config, "ideal_high", Fin(100))
        hard_max == Get(config, "hard_max", INF)
    IN  IF FLe(v, ideal_low) THEN Fin(1)
        ELSE IF FLe(hard_max, v) THEN Fin(0)
        ELSE IF FLe(v, ideal_high)
             THEN FAdd(P08, FMul(P02, FDiv(FSub(v, ideal_low), FSub(ideal_high, ideal_low))))
        ELSE FMul(P08, FDiv(FSub(hard_max, v), FSub(hard_max, ideal_high)))

\* lower_better with the outer zone measured from ideal_low
NormalizeLowerBetter_WrongSpan(config, v) ==
    LET ideal_low == Get(config, "ideal_low", Fin(0))
        ideal_high == Get(config, "ideal_high", Fin(100))
        hard_max == Get(config, "hard_max", INF)
    IN  IF FLe(v, ideal_low) THEN Fin(1)
        ELSE IF FLe(hard_max, v) THEN Fin(0)
        ELSE IF FLe(v, ideal_high)
             THEN FAdd(P08, FMul(P02, FDiv(FSub(ideal_high, v), FSub(ideal_high, ideal_low))))
        ELSE FMul(P08, FDiv(FSub(hard_max, v), FSub(hard_max, ideal_low)))

NormalizeLowerBetter(config, v) ==
    LET ideal_low == Get(config, "ideal_low", Fin(0))
        ideal_high == Get(config, "ideal_high", Fin(100))
        hard_max == Get(config, "hard_max", INF)
    IN  IF FLe(v, ideal_low) THEN Fin(1)
        ELSE IF FLe(hard_max, v) THEN Fin(0)
        ELSE IF FLe(v, ideal_high)
             THEN FAdd(P08, FMul(P02, FDiv(FSub(ideal_high, v), FSub(ideal_high, ideal_low))))
        ELSE FMul(P08, FDiv(FSub(hard_max, v), FSub(hard_max, ideal_high)))

\* mid with the 0.8 / 0.2 split of the other two directions
NormalizeMid_Split(config, v) ==
    LET ideal_low == Get(config, "ideal_low", Fin(0))
        ideal_high == Get(config, "ideal_high", Fin(100))
        hard_min == Get(config, "hard_min", Fin(0))
        hard_max == Get(config, "hard_max", INF)
    IN  IF FLe(ideal_low, v) /\ FLe(v, ideal_high) THEN Fin(1)
        ELSE IF FLt(v, ideal_low)
             THEN (IF FLe(v, hard_min) THEN Fin(0)
                   ELSE FAdd(P08, FMul(P02, FDiv(FSub(v, hard_min), FSub(ideal_low, hard_min)))))
        ELSE (IF FLe(hard_max, v) THEN Fin(0)
              ELSE FAdd(P08, FMul(P02, FDiv(FSub(hard_max, v), FSub(hard_max, ideal_high)))))

NormalizeMid(config, v) ==
    LET ideal_low == Get(config, "ideal_low", Fin(0))
        ideal_high == Get(config, "ideal_high", Fin(100))
        hard_min == Get(config, "hard_min", Fin(0))
        hard_max == Get(config, "hard_max", INF)
    IN  IF FLe(ideal_low, v) /\ FLe(v, ideal_high) THEN Fin(1)
        ELSE IF FLt(v, ideal_low)
             THEN (IF FLe(v, hard_min) THEN Fin(0)
                   ELSE FAdd(Half, FMul(Half, FDiv(FSub(v, hard_min), FSub(ideal_low, hard_min)))))
        ELSE (IF FLe(hard_max, v) THEN Fin(0)
              ELSE FAdd(Half, FMul(Half, FDiv(FSub(hard_max, v), FSub(hard_max, ideal_high)))))

NormalizeConfig(config, v) ==
    IF config.direction = "higher_better" THEN NormalizeHigherBetter(config, v)
    ELSE IF config.direction = "lower_better" THEN NormalizeLowerBetter(config, v)
    ELSE IF config.direction = "mid" THEN NormalizeMid(config, v)
    ELSE Half

\* normalize_metric scoring a metric without a spec for the band as 0
normalize_metric_Zero(name, raw, code) ==
    IF name \notin DOMAIN METRIC_CONFIG THEN Half
    ELSE IF code \notin DOMAIN METRIC_CONFIG[name] THEN Fin(0)
    ELSE NormalizeConfig(METRIC_CONFIG[name][code], Fin(raw))

\* raw is the raw metric value in hundredths
normalize_metric(name, raw, code) ==
    IF name \notin DOMAIN METRIC_CONFIG THEN Half
    ELSE IF code \notin DOMAIN METRIC_CONFIG[name] THEN Half
    ELSE NormalizeConfig(METRIC_CONFIG[name][code], Fin(raw))

\* the dimensions of config.py in declared order, metric names as listed
DIMENSIONS == <<
    [name |-> "Pacing",
     metrics |-> <<"cuts_per_minute", "avg_shot_length", "motion_high_frac",
                   "loudness_mean", "music_ratio", "sfx_rate">>],
    [name |-> "Story",
     metrics |-> <<"adjacent_similarity_mean", "topic_jumps">>],
    [name |-> "Language",
     metrics |-> <<"type_token_ratio", "mean_utterance_length",
                   "tier2_vocab_frac", "question_rate">>],
    [name |-> "SEL",
     metrics |-> <<"prosocial_ratio", "aggression_rate", "sel_strategy_rate",
                   "emotion_word_rate", "mental_state_word_rate">>],
    [name |-> "Fantasy",
     metrics |-> <<"fantasy_rate", "impossible_event_rate">>],
    [name |-> "Interactivity",
     metrics |-> <<"direct_address_rate", "interactive_block_count">>] >>

DimNames == {DIMENSIONS[i].name : i \in 1..Len(DIMENSIONS)}
MetricsOf(dimension) ==
    DIMENSIONS[CHOOSE i \in 1..Len(DIMENSIONS) : DIMENSIONS[i].name = dimension].metrics

\* weights in hundredths; the G1_0_2 profile adds up to 1.05
ConfiguredDevWeights_Heavy ==
    "G1_0_2" :> [Pacing |-> 25, Story |-> 15, Language |-> 20, SEL |-> 25,
                 Fantasy |-> 5, Interactivity |-> 15]
 @@ "G2_2_3" :> [Pacing |-> 18, Story |-> 18, Language |-> 22, SEL |-> 25,
                 Fantasy |-> 7, Interactivity |-> 10]
 @@ "G3_3_5" :> [Pacing |-> 15, Story |-> 20, Language |-> 25, SEL |-> 25,
                 Fantasy |-> 5, Interactivity |-> 10]
 @@ "G4_5_8" :> [Pacing |-> 12, Story |-> 23, Language |-> 25, SEL |-> 23,
                 Fantasy |-> 7, Interactivity |-> 10]

\* weights in hundredths
ConfiguredDevWeights ==
    "G1_0_2" :> [Pacing |-> 20, Story |-> 15, Language |-> 20, SEL |-> 25,
                 Fantasy |-> 5, Interactivity |-> 15]
 @@ "G2_2_3" :> [Pacing |-> 18, Story |-> 18, Language |-> 22, SEL |-> 25,
                 Fantasy |-> 7, Interactivity |-> 10]
 @@ "G3_3_5" :> [Pacing |-> 15, Story |-> 20, Language |-> 25, SEL |-> 25,
                 Fantasy |-> 5, Interactivity |-> 10]
 @@ "G4_5_8" :> [Pacing |-> 12, Story |-> 23, Language |-> 25, SEL |-> 23,
                 Fantasy |-> 7, Interactivity |-> 10]

ConfiguredBrainrotWeights ==
    "G1_0_2" :> [Pacing |-> 40, Story |-> 10, Language |-> 5, SEL |-> 30,
                 Fantasy |-> 10, Interactivity |-> 5]
 @@ "G2_2_3" :> [Pacing |-> 38, Story |-> 12, Language |-> 5, SEL |-> 28,
                 Fantasy |-> 12, Interactivity |-> 5]
 @@ "G3_3_5" :> [Pacing |-> 35, Story |-> 15, Language |-> 10, SEL |-> 25,
                 Fantasy |-> 15, Interactivity |-> 0]
 @@ "G4_5_8" :> [Pacing |-> 30, Story |-> 18, Language |-> 12, SEL |-> 22,
                 Fantasy |-> 13, Interactivity |-> 5]

RECURSIVE SumSeq(_)
SumSeq(seq) == IF seq = <<>> THEN Fin(0) ELSE FAdd(SumSeq(Tail(seq)), Head(seq))

\* the sum of the values of a map
RECURSIVE SumMap(_, _)
SumMap(terms, keys) ==
    IF keys = {} THEN Fin(0)
    ELSE LET key == CHOOSE key \in keys : TRUE
         IN  FAdd(SumMap(terms, keys \ {key}), terms[key])

\* the normalized scores of the listed metrics that raw holds, in listed order
NormalizedScores(metric_names, raw, code) ==
    LET present == SelectSeq(metric_names, LAMBDA name : name \in DOMAIN raw)
    IN  [i \in 1..Len(present) |-> normalize_metric(present[i], raw[present[i]], code)]

\* divides by the number of listed metrics: a missing metric counts as zero
compute_dimension_scores_AllListed(raw, code) ==
    [dimension \in DimNames |->
        LET normalized_scores == NormalizedScores(MetricsOf(dimension), raw, code)
        IN  IF Len(normalized_scores) > 0
            THEN FMul(FDiv(SumSeq(normalized_scores), Fin(Len(MetricsOf(dimension)))),
                      Fin(100))
            ELSE Fin(50)]

\* gives a dimension without metrics the score 0
compute_dimension_scores_EmptyZero(raw, code) ==
    [dimension \in DimNames |->
        LET normalized_scores == NormalizedScores(MetricsOf(dimension), raw, code)
        IN  IF Len(normalized_scores) > 0
            THEN FMul(FDiv(SumSeq(normalized_scores), Fin(Len(normalized_scores))),
                      Fin(100))
            ELSE Fin(0)]

compute_dimension_scores(raw, code) ==
    [dimension \in DimNames |->
        LET normalized_scores == NormalizedScores(MetricsOf(dimension), raw, code)
        IN  IF Len(normalized_scores) > 0
            THEN FMul(FDiv(SumSeq(normalized_scores), Fin(Len(normalized_scores))),
                      Fin(100))
            ELSE Fin(50)]

\* falls back to the weight 1 for every dimension
WeightsFor_One(table, code) ==
    IF code \notin DOMAIN table
    THEN [dimension \in DimNames |-> Fin(1)]
    ELSE [dimension \in DOMAIN table[code] |-> Rat(table[code][dimension], 100)]

\* the weight profile of the band, or equal weights when it has none
WeightsFor(table, code) ==
    IF code \notin DOMAIN table
    THEN [dimension \in DimNames |-> Rat(1, Len(DIMENSIONS))]
    ELSE [dimension \in DOMAIN table[code] |-> Rat(table[code][dimension], 100)]

\* divides the sum by the weights of the dimensions that have a score
aggregate_dev_score_Renormalized(scores, code) ==
    LET weights == WeightsFor(DEV_WEIGHTS, code)
        counted == (DOMAIN weights) \cap (DOMAIN scores)
    IN  IF counted = {} THEN Fin(0)
        ELSE FDiv(SumMap([dimension \in counted |->
                             FMul(weights[dimension], scores[dimension])], counted),
                  SumMap([dimension \in counted |-> weights[dimension]], counted))

aggregate_dev_score(scores, code) ==
    LET weights == WeightsFor(DEV_WEIGHTS, code)
        counted == (DOMAIN weights) \cap (DOMAIN scores)
    IN  SumMap([dimension \in counted |-> FMul(weights[dimension], scores[dimension])],
               counted)

\* weighs the dimension scores themselves, not their inverses
aggregate_brainrot_index_NotInverted(scores, code) ==
    LET weights == WeightsFor(BRAINROT_WEIGHTS, code)
        risk_scores == [dimension \in DimNames |->
                           IF dimension \in DOMAIN scores
                           THEN scores[dimension]
                           ELSE Fin(50)]
        counted == (DOMAIN weights) \cap (DOMAIN risk_scores)
    IN  SumMap([dimension \in counted |->
                   FMul(weights[dimension], risk_scores[dimension])], counted)

aggregate_brainrot_index(scores, code) ==
    LET weights == WeightsFor(BRAINROT_WEIGHTS, code)
        risk_scores == [dimension \in DimNames |->
                           IF dimension \in DOMAIN scores
                           THEN FSub(Fin(100), scores[dimension])
                           ELSE Fin(50)]
        counted == (DOMAIN weights) \cap (DOMAIN risk_scores)
    IN  SumMap([dimension \in counted |->
                   FMul(weights[dimension], risk_scores[dimension])], counted)

----------------------------------------------------------------------------
(* The same aggregations in the arithmetic of Python's float, the IEEE 754
   binary64 with round-to-nearest-even.  A natural number of any size is a
   sequence of limbs, lowest first and without leading zero limbs.  Only
   non-negative values within the normal exponent range occur here. *)

RECURSIVE Pow2(_)
Pow2(k) == IF k = 0 THEN 1 ELSE 2 * Pow2(k - 1)

LimbBits == 15
LimbBase == Pow2(LimbBits)
\* sys.float_info.mant_dig
MantissaBits == 53

RECURSIVE Trim(_)
Trim(a) ==
    IF a # <<>> /\ a[Len(a)] = 0 THEN Trim(SubSeq(a, 1, Len(a) - 1)) ELSE a

RECURSIVE BigOf(_)
BigOf(n) == IF n = 0 THEN <<>> ELSE <<n % LimbBase>> \o BigOf(n \div LimbBase)

RECURSIVE BigAddCarry(_, _, _)
BigAddCarry(a, b, carry) ==
    IF a = <<>> /\ b = <<>> THEN BigOf(carry)
    ELSE LET x == IF a = <<>> THEN 0 ELSE Head(a)
             y == IF b = <<>> THEN 0 ELSE Head(b)
             t == x + y + carry
         IN  <<t % LimbBase>>
                \o BigAddCarry(IF a = <<>> THEN <<>> ELSE Tail(a),
                               IF b = <<>> THEN <<>> ELSE Tail(b),
                               t \div LimbBase)

BigAdd(a, b) == BigAddCarry(a, b, 0)

\* a - b for a >= b
RECURSIVE BigSubBorrow(_, _, _)
BigSubBorrow(a, b, borrow) ==
    IF a = <<>> THEN <<>>
    ELSE LET y == IF b = <<>> THEN 0 ELSE Head(b)
             t == Head(a) - y - borrow
         IN  <<(t + LimbBase) % LimbBase>>
                \o BigSubBorrow(Tail(a), IF b = <<>> THEN <<>> ELSE Tail(b),
                                IF t < 0 THEN 1 ELSE 0)

BigSub(a, b) == Trim(BigSubBorrow(a, b, 0))

BigLess(a, b) ==
    IF Len(a) # Len(b) THEN Len(a) < Len(b)
    ELSE \E i \in 1..Len(a) :
            /\ a[i] < b[i]
            /\ \A j \in (i + 1)..Len(a) : a[j] = b[j]

\* a * c for a limb c
RECURSIVE BigMulLimbCarry(_, _, _)
BigMulLimbCarry(a, c, carry) ==
    IF a = <<>> THEN BigOf(carry)
    ELSE LET t == Head(a) * c + carry
         IN  <<t % LimbBase>> \o BigMulLimbCarry(Tail(a), c, t \div LimbBase)

BigMulLimb(a, c) == Trim(BigMulLimbCarry(a, c, 0))

ShiftLimbs(a, k) == IF a = <<>> THEN <<>> ELSE [i \in 1..k |-> 0] \o a

RECURSIVE BigMul(_, _)
BigMul(a, b) ==
    IF b = <<>> THEN <<>>
    ELSE BigAdd(BigMulLimb(a, Head(b)), ShiftLimbs(BigMul(a, Tail(b)), 1))

\* quotient and remainder of a by a divisor d of at most a limb
RECURSIVE BigDivLimb(_, _)
BigDivLimb(a, d) ==
    IF a = <<>> THEN [q |-> <<>>, r |-> 0]
    ELSE LET high == BigDivLimb(Tail(a), d)
             t == high.r * LimbBase + Head(a)
         IN  [q |-> Trim(<<t \div d>> \o high.q), r |-> t % d]

RECURSIVE IntBitLen(_)
IntBitLen(n) == IF n = 0 THEN 0 ELSE 1 + IntBitLen(n \div 2)

BigBitLen(a) ==
    IF a = <<>> THEN 0 ELSE LimbBits * (Len(a) - 1) + IntBitLen(a[Len(a)])

BigIsOdd(a) == a # <<>> /\ a[1] % 2 = 1

BigShiftLeft(a, k) == ShiftLimbs(BigMulLimb(a, Pow2(k % LimbBits)), k \div LimbBits)

\* a shifted right by k bits, and whether a one was shifted out
BigShiftRight(a, k) ==
    LET limbs == k \div LimbBits
        kept == BigDivLimb(SubSeq(a, limbs + 1, Len(a)), Pow2(k % LimbBits))
    IN  [q |-> kept.q,
         sticky |-> kept.r # 0 \/ \E i \in 1..limbs : a[i] # 0]

\* a double is m * 2^e with m of exactly MantissaBits bits, or zero
DZero == [k |-> "double", m |-> <<>>, e |-> 0]

\* the double nearest to (n + f) * 2^e, ties to even, where 0 < f < 1 when
\* sticky and f = 0 otherwise; a sticky n has more than MantissaBits bits
RoundToDouble(n, e, sticky) ==
    LET len == BigBitLen(n)
        drop == len - MantissaBits
        shifted == BigShiftRight(n, drop - 1)
        half == BigIsOdd(shifted.q)
        q == BigDivLimb(shifted.q, 2).q
        up == half /\ (shifted.sticky \/ sticky \/ BigIsOdd(q))
        m == IF up THEN BigAdd(q, BigOf(1)) ELSE q
    IN  IF n = <<>> THEN DZero
        ELSE IF drop <= 0
             THEN [k |-> "double", m |-> BigShiftLeft(n, -drop), e |-> e + drop]
        ELSE IF BigBitLen(m) > MantissaBits
             THEN [k |-> "double", m |-> BigDivLimb(m, 2).q, e |-> e + drop + 1]
        ELSE [k |-> "double", m |-> m, e |-> e + drop]

\* the bits kept of the quotient when a decimal literal is converted
LiteralBits == 75

\* the double of the decimal literal n / d, 0 <= n and 0 < d <= a limb
DLiteral(n, d) ==
    LET quotient == BigDivLimb(BigShiftLeft(BigOf(n), LiteralBits), d)
    IN  RoundToDouble(quotient.q, -LiteralBits, quotient.r # 0)

DMul(x, y) == RoundToDouble(BigMul(x.m, y.m), x.e + y.e, FALSE)

\* x and y as whole multiples of the same power of two
Aligned(x, y) ==
    LET e == IF x.e < y.e THEN x.e ELSE y.e
    IN  [x |-> BigShiftLeft(x.m, x.e - e), y |-> BigShiftLeft(y.m, y.e - e), e |-> e]

DAdd(x, y) ==
    IF x.m = <<>> THEN y
    ELSE IF y.m = <<>> THEN x
    ELSE LET both == Aligned(x, y)
         IN  RoundToDouble(BigAdd(both.x, both.y), both.e, FALSE)

\* x - y for x >= y >= 0
DSub(x, y) ==
    IF y.m = <<>> THEN x
    ELSE LET both == Aligned(x, y)
         IN  RoundToDouble(BigSub(both.x, both.y), both.e, FALSE)

\* |x - y| < 2^p
DWithin(x, y, p) ==
    IF x = y THEN TRUE
    ELSE LET both == IF x.m = <<>> THEN [x |-> <<>>, y |-> y.m, e |-> y.e]
                     ELSE IF y.m = <<>> THEN [x |-> x.m, y |-> <<>>, e |-> x.e]
                     ELSE Aligned(x, y)
             gap == IF BigLess(both.x, both.y) THEN BigSub(both.y, both.x)
                    ELSE BigSub(both.x, both.y)
         IN  BigBitLen(gap) + both.e <= p

\* the double of a score given as a decimal with denominator 1, 10 or 100
DScore(score) == DLiteral(score.n, score.d)

\* the weights of the band as doubles, in the order of weights.items()
DWeightsFor(table, code) ==
    [i \in 1..Len(DIMENSIONS) |->
        [dimension |-> DIMENSIONS[i].name,
         weight |-> IF code \notin DOMAIN table
                    THEN DLiteral(1, Len(DIMENSIONS))
                    ELSE DLiteral(table[code][DIMENSIONS[i].name], 100)]]

\* score += weight * term[dimension], over the weights in order
RECURSIVE DWeightedSum(_, _, _)
DWeightedSum(weights, terms, i) ==
    IF i = 0 THEN DZero
    ELSE LET score == DWeightedSum(weights, terms, i - 1)
         IN  IF weights[i].dimension \in DOMAIN terms
             THEN DAdd(score, DMul(weights[i].weight, terms[weights[i].dimension]))
             ELSE score

\* sum(weights.values())
RECURSIVE DSum(_, _)
DSum(weights, i) ==
    IF i = 0 THEN DZero ELSE DAdd(DSum(weights, i - 1), weights[i].weight)

\* leaves the last weighted dimension out of the sum
aggregate_dev_score_double_Short(scores, code) ==
    LET weights == DWeightsFor(DEV_WEIGHTS, code)
    IN  DWeightedSum(weights, [dimension \in DOMAIN scores |-> DScore(scores[dimension])],
                     Len(weights) - 1)

aggregate_dev_score_double(scores, code) ==
    LET weights == DWeightsFor(DEV_WEIGHTS, code)
    IN  DWeightedSum(weights, [dimension \in DOMAIN scores |-> DScore(scores[dimension])],
                     Len(weights))

aggregate_brainrot_index_double(scores, code) ==
    LET weights == DWeightsFor(BRAINROT_WEIGHTS, code)
        risk_scores == [dimension \in DimNames |->
                           IF dimension \in DOMAIN scores
                           THEN DSub(DLiteral(100, 1), DScore(scores[dimension]))
                           ELSE DLiteral(50, 1)]
    IN  DWeightedSum(weights, risk_scores, Len(weights))

\* METRIC_CONFIG[name][code][key] raises KeyError
NoConfigKey(name, code, key) ==
    \/ name \notin DOMAIN METRIC_CONFIG
    \/ code \notin DOMAIN METRIC_CONFIG[name]
    \/ key \notin DOMAIN METRIC_CONFIG[name][code]

\* flags the pacing at 0.8 times hard_max already, and the aggression at
\* ideal_high
generate_recommendations_Inclusive(scores, raw, code) ==
    LET excellent == {<<"Excellent", dimension>> : dimension \in
                         {dim \in DOMAIN scores : FLe(Fin(75), scores[dim])}}
        needs == {<<"Needs improvement", dimension>> : dimension \in
                     {dim \in DOMAIN scores :
                         ~FLe(Fin(75), scores[dim]) /\ FLt(scores[dim], Fin(50))}}
    IN  IF \/ "aggression_rate" \in DOMAIN raw
              /\ NoConfigKey("aggression_rate", code, "ideal_high")
           \/ "cuts_per_minute" \in DOMAIN raw
              /\ NoConfigKey("cuts_per_minute", code, "hard_max")
        THEN [raised |-> "KeyError", strengths |-> {}, concerns |-> {}]
        ELSE [raised |-> "",
              strengths |->
                  excellent \cup
                  (IF "prosocial_ratio" \in DOMAIN raw /\ raw["prosocial_ratio"] >= 70
                   THEN {<<"Strong prosocial content", "prosocial_ratio">>} ELSE {}),
              concerns |->
                  needs \cup
                  (IF "aggression_rate" \in DOMAIN raw
                      /\ raw["aggression_rate"]
                            >= METRIC_CONFIG["aggression_rate"][code].ideal_high
                   THEN {<<"High aggression rate", "aggression_rate">>} ELSE {})
                  \cup
                  (IF "cuts_per_minute" \in DOMAIN raw
                      /\ FLe(FMul(Fin(METRIC_CONFIG["cuts_per_minute"][code].hard_max), P08),
                             Fin(raw["cuts_per_minute"]))
                   THEN {<<"Very fast pacing", "cuts_per_minute">>} ELSE {})]

\* The entries of the two lists are kept as <<text, subject>> pairs, without
\* the formatted number and without their order in the list.
generate_recommendations(scores, raw, code) ==
    LET excellent == {<<"Excellent", dimension>> : dimension \in
                         {dim \in DOMAIN scores : FLe(Fin(75), scores[dim])}}
        needs == {<<"Needs improvement", dimension>> : dimension \in
                     {dim \in DOMAIN scores :
                         ~FLe(Fin(75), scores[dim]) /\ FLt(scores[dim], Fin(50))}}
    IN  IF \/ "aggression_rate" \in DOMAIN raw
              /\ NoConfigKey("aggression_rate", code, "ideal_high")
           \/ "cuts_per_minute" \in DOMAIN raw
              /\ NoConfigKey("cuts_per_minute", code, "hard_max")
        THEN [raised |-> "KeyError", strengths |-> {}, concerns |-> {}]
        ELSE [raised |-> "",
              strengths |->
                  excellent \cup
                  (IF "prosocial_ratio" \in DOMAIN raw /\ raw["prosocial_ratio"] >= 70
                   THEN {<<"Strong prosocial content", "prosocial_ratio">>} ELSE {}),
              concerns |->
                  needs \cup
                  (IF "aggression_rate" \in DOMAIN raw
                      /\ raw["aggression_rate"]
                            > METRIC_CONFIG["aggression_rate"][code].ideal_high
                   THEN {<<"High aggression rate", "aggression_rate">>} ELSE {})
                  \cup
                  (IF "cuts_per_minute" \in DOMAIN raw
                      /\ FLt(FMul(Fin(METRIC_CONFIG["cuts_per_minute"][code].hard_max), P08),
                             Fin(raw["cuts_per_minute"]))
                   THEN {<<"Very fast pacing", "cuts_per_minute">>} ELSE {})]

\* names the first score band at its lower threshold
interpret_scores_Exclusive(dev, brainrot) ==
    [developmental |->
        IF FLt(Fin(80), dev) THEN "Excellent - Highly developmentally appropriate"
        ELSE IF FLe(Fin(65), dev)
             THEN "Good - Generally appropriate with some areas for improvement"
        ELSE IF FLe(Fin(50), dev)
             THEN "Fair - Some concerning elements, use with caution"
        ELSE IF FLe(Fin(35), dev) THEN "Poor - Multiple developmental concerns"
        ELSE "Very Poor - Not recommended for this age group",
     brainrot |->
        IF FLe(brainrot, Fin(20)) THEN "Very Low Risk - Safe and healthy content"
        ELSE IF FLe(brainrot, Fin(40)) THEN "Low Risk - Minor concerns, generally safe"
        ELSE IF FLe(brainrot, Fin(60)) THEN "Moderate Risk - Some problematic elements"
        ELSE IF FLe(brainrot, Fin(80))
             THEN "High Risk - Multiple red flags, limit exposure"
        ELSE "Very High Risk - Strongly discourage viewing",
     overall |->
        IF FLe(Fin(65), dev) /\ FLe(brainrot, Fin(40)) THEN "Recommended"
        ELSE IF FLe(Fin(50), dev) /\ FLe(brainrot, Fin(60))
             THEN "Acceptable with supervision"
        ELSE "Not recommended"]

\* accepts supervision when either score allows it
interpret_scores_Either(dev, brainrot) ==
    [developmental |->
        IF FLe(Fin(80), dev) THEN "Excellent - Highly developmentally appropriate"
        ELSE IF FLe(Fin(65), dev)
             THEN "Good - Generally appropriate with some areas for improvement"
        ELSE IF FLe(Fin(50), dev)
             THEN "Fair - Some concerning elements, use with caution"
        ELSE IF FLe(Fin(35), dev) THEN "Poor - Multiple developmental concerns"
        ELSE "Very Poor - Not recommended for this age group",
     brainrot |->
        IF FLe(brainrot, Fin(20)) THEN "Very Low Risk - Safe and healthy content"
        ELSE IF FLe(brainrot, Fin(40)) THEN "Low Risk - Minor concerns, generally safe"
        ELSE IF FLe(brainrot, Fin(60)) THEN "Moderate Risk - Some problematic elements"
        ELSE IF FLe(brainrot, Fin(80))
             THEN "High Risk - Multiple red flags, limit exposure"
        ELSE "Very High Risk - Strongly discourage viewing",
     overall |->
        IF FLe(Fin(65), dev) /\ FLe(brainrot, Fin(40)) THEN "Recommended"
        ELSE IF FLe(Fin(50), dev) \/ FLe(brainrot, Fin(60))
             THEN "Acceptable with supervision"
        ELSE "Not recommended"]

interpret_scores(dev, brainrot) ==
    [developmental |->
        IF FLe(Fin(80), dev) THEN "Excellent - Highly developmentally appropriate"
        ELSE IF FLe(Fin(65), dev)
             THEN "Good - Generally appropriate with some areas for improvement"
        ELSE IF FLe(Fin(50), dev)
             THEN "Fair - Some concerning elements, use with caution"
        ELSE IF FLe(Fin(35), dev) THEN "Poor - Multiple developmental concerns"
        ELSE "Very Poor - Not recommended for this age group",
     brainrot |->
        IF FLe(brainrot, Fin(20)) THEN "Very Low Risk - Safe and healthy content"
        ELSE IF FLe(brainrot, Fin(40)) THEN "Low Risk - Minor concerns, generally safe"
        ELSE IF FLe(brainrot, Fin(60)) THEN "Moderate Risk - Some problematic elements"
        ELSE IF FLe(brainrot, Fin(80))
             THEN "High Risk - Multiple red flags, limit exposure"
        ELSE "Very High Risk - Strongly discourage viewing",
     overall |->
        IF FLe(Fin(65), dev) /\ FLe(brainrot, Fin(40)) THEN "Recommended"
        ELSE IF FLe(Fin(50), dev) /\ FLe(brainrot, Fin(60))
             THEN "Acceptable with supervision"
        ELSE "Not recommended"]

----------------------------------------------------------------------------
(* evaluate_video.py                                                       *)

\* the values of a call that has not produced them
NoResult == [k |-> "none", n |-> 0, d |-> 0]
NoMap == [name \in {} |-> 0]
NoRecommendations == [raised |-> "", strengths |-> {}, concerns |-> {}]
NoInterpretations == [developmental |-> "", brainrot |-> "", overall |-> ""]

\* a float that may be nan, as float(age_str) can return: v in hundredths
Age(v) == [k |-> "num", v |-> v]

\* assign_age_band on a float: every comparison with nan is false, so no
\* band matches
assign_age_band_float(age) ==
    IF age.k = "num" THEN assign_age_band(age.v)
    ELSE ScanAgeBands(Len(AGE_BANDS) + 1, 0)

NoOutcome == [raised |-> "", llm_constructed |-> FALSE, semantic |-> ""]

\* lines 63-68: without a client, one is constructed, and LLMClient raises
\* ValueError when it finds no API key; lines 151-166: the heuristic
\* function is not among the imports
ClientOutcome(client, key_set) ==
    LET constructs == client = "None"
        llm == IF ~constructs THEN client
               ELSE IF key_set THEN "LLMClient" ELSE "ValueError"
        semantic == IF llm # "None" THEN "llm" ELSE "heuristic"
    IN  [raised |-> IF llm = "ValueError" THEN "ValueError"
                    ELSE IF semantic = "heuristic" THEN "NameError"
                    ELSE "",
         llm_constructed |-> constructs,
         semantic |-> IF llm = "ValueError" \/ semantic = "heuristic" THEN ""
                      ELSE semantic]

\* interprets the two composite scores in swapped places
Results_SwappedScores(measured, age, code, outcome, scores) ==
    LET dev == aggregate_dev_score(scores, code)
        brainrot_ix == aggregate_brainrot_index(scores, code)
    IN  [outcome |-> outcome,
         child_age |-> age, age_band |-> code, raw_metrics |-> measured,
         dimension_scores |-> scores,
         development_score |-> dev, brainrot_index |-> brainrot_ix,
         interpretations |-> interpret_scores(brainrot_ix, dev),
         recommendations |-> generate_recommendations(scores, measured, code)]

\* lines 202-238: the composites, the recommendations, the interpretations
\* and the results dictionary
Results(measured, age, code, outcome, scores) ==
    LET dev == aggregate_dev_score(scores, code)
        brainrot_ix == aggregate_brainrot_index(scores, code)
    IN  [outcome |-> outcome,
         child_age |-> age, age_band |-> code, raw_metrics |-> measured,
         dimension_scores |-> scores,
         development_score |-> dev, brainrot_index |-> brainrot_ix,
         interpretations |-> interpret_scores(dev, brainrot_ix),
         recommendations |-> generate_recommendations(scores, measured, code)]

\* lines 196-200: the age band and the dimension scores, unless the set-up
\* has raised
ScoringSteps(measured, age, code, outcome) ==
    IF outcome.raised # ""
    THEN [outcome |-> outcome,
          child_age |-> age, age_band |-> "", raw_metrics |-> NoMap,
          dimension_scores |-> NoMap,
          development_score |-> NoResult, brainrot_index |-> NoResult,
          interpretations |-> NoInterpretations,
          recommendations |-> NoRecommendations]
    ELSE Results(measured, age, code, outcome,
                 compute_dimension_scores(measured, code))

\* what evaluate_video returns or raises.  measured is the outcome of steps
\* 1 to 6 but for the semantic labels: the merged raw metrics of the video.
evaluate_video(measured, age, client, key_set) ==
    ScoringSteps(measured, age, assign_age_band_float(age),
                 ClientOutcome(client, key_set))

----------------------------------------------------------------------------
(* api.py                                                                  *)

DigitOf ==
    "0" :> 0 @@ "1" :> 1 @@ "2" :> 2 @@ "3" :> 3 @@ "4" :> 4 @@
    "5" :> 5 @@ "6" :> 6 @@ "7" :> 7 @@ "8" :> 8 @@ "9" :> 9

IsDigits(chars) == \A i \in 1..Len(chars) : chars[i] \in DOMAIN DigitOf

RECURSIVE DigitsValue(_)
DigitsValue(chars) ==
    IF chars = <<>> THEN 0
    ELSE 10 * DigitsValue(SubSeq(chars, 1, Len(chars) - 1)) + DigitOf[chars[Len(chars)]]

\* float(age_str) for a text given by its characters: an optional minus
\* sign before nan, inf, or digits with at most one point; any other text
\* raises ValueError.  The value is in hundredths, decimals after the
\* second are dropped.
ParseFloat(chars) ==
    LET negative == Len(chars) > 0 /\ chars[1] = "-"
        body == IF negative THEN Tail(chars) ELSE chars
        points == {i \in 1..Len(body) : body[i] = "."}
        point == IF points = {} THEN Len(body) + 1 ELSE CHOOSE i \in points : TRUE
        whole == SubSeq(body, 1, point - 1)
        decimals == SubSeq(body, point + 1, Len(body))
        hundredths == SubSeq(decimals \o <<"0", "0">>, 1, 2)
        sign == IF negative THEN -1 ELSE 1
    IN  IF body = <<"n", "a", "n">> THEN [k |-> "nan", v |-> 0]
        ELSE IF body = <<"i", "n", "f">> THEN [k |-> "inf", v |-> sign]
        ELSE IF /\ Cardinality(points) <= 1
                /\ IsDigits(whole) /\ IsDigits(decimals)
                /\ Len(whole) + Len(decimals) > 0
             THEN [k |-> "num",
                   v |-> sign * (100 * DigitsValue(whole) + DigitsValue(hundredths))]
        ELSE [k |-> "ValueError", v |-> 0]

\* api.py 263: child_age < 0 or child_age > 18, false for nan
OutOfRange(age) ==
    \/ age.k = "inf"
    \/ age.k = "num" /\ (age.v < 0 \/ age.v > 1800)

NotCached == [found |-> FALSE, row |-> [kind |-> ""]]

get_cached_evaluation(video_url, db, lookup_fails) ==
    IF ~db.configured THEN NotCached
    ELSE IF lookup_fails THEN NotCached
    ELSE IF video_url \notin DOMAIN db.video_eval THEN NotCached
    ELSE [found |-> TRUE, row |-> db.video_eval[video_url]]

\* the row that is saved for an evaluation; kind tags the shape of a body
Payload(video_url, results) ==
    [kind |-> "cached",
     video_path |-> video_url,
     child_age |-> results.child_age,
     age_band |-> results.age_band,
     dev_score |-> results.development_score,
     brainrot_index |-> results.brainrot_index,
     overall_recommendation |-> results.interpretations.overall,
     dimension_scores |-> results.dimension_scores]

save_evaluation_to_supabase(video_url, results, db, save_fails) ==
    IF ~db.configured THEN db
    ELSE IF save_fails THEN db
    ELSE [db EXCEPT !.video_eval = (video_url :> Payload(video_url, results)) @@ @]

\* the JSON body of a fresh evaluation
ResultsBody(results) ==
    [kind |-> "results",
     metadata |-> [child_age |-> results.child_age, age_band |-> results.age_band],
     dimension_scores |-> results.dimension_scores,
     overall_scores |-> [development_score |-> results.development_score,
                         brainrot_index |-> results.brainrot_index],
     interpretations |-> results.interpretations]

ErrorBody(error) == [kind |-> "error", error |-> error]

\* the raw metrics that extraction and measurement yield for a video: the
\* same on every request for the same url ("" is the video in outputs/)
VideoMetrics(video_url) ==
    IF video_url = "https://youtube.com/watch?v=a"
    THEN CHOOSE measured \in {[name \in DOMAIN METRIC_CONFIG |->
                                  METRIC_CONFIG[name]["G1_0_2"].ideal_low]} : TRUE
    ELSE IF video_url = ""
    THEN [name \in DOMAIN METRIC_CONFIG |-> METRIC_CONFIG[name]["G4_5_8"].ideal_high]
    ELSE [duration_minutes |-> 500]

\* lines 301-308 and 322-327: the answer once evaluate_video has returned
\* or raised
Answer(youtube_url, db, env, results) ==
    IF results.outcome.raised # ""
    THEN [status |-> 500, body |-> ErrorBody("Evaluation failed"),
          supabase |-> db, outcome |-> results.outcome]
    ELSE [status |-> 200, body |-> ResultsBody(results),
          supabase |-> IF youtube_url # ""
                       THEN save_evaluation_to_supabase(youtube_url, results, db,
                                                        env.save_fails)
                       ELSE db,
          outcome |-> results.outcome]

\* what a request ends in before the evaluation, "" when it gets there
Rejected(req, use_existing, age, env) ==
    IF ~req.age.present \/ req.age.text = <<>> THEN "Missing required parameter: age"
    ELSE IF age.k = "ValueError" THEN "Invalid age format"
    ELSE IF OutOfRange(age) THEN "Invalid age"
    ELSE IF ~use_existing /\ env.extraction = "Exception" THEN "Evaluation failed"
    ELSE IF use_existing /\ ~env.outputs_video THEN "File not found"
    ELSE IF ~use_existing /\ env.extraction # "ok" THEN "File not found"
    ELSE ""

StatusOf ==
    "Missing required parameter: age" :> 400 @@ "Invalid age format" :> 400
        @@ "Invalid age" :> 400 @@ "File not found" :> 404
        @@ "Evaluation failed" :> 500

\* GET /evaluate.  env is what the request meets outside the process:
\* whether the cache look-up and the save fail, how the extraction ends,
\* whether outputs/ holds a video and whether the API key is set.
evaluate_get(req, db, env) ==
    LET youtube_url == IF req.url.present THEN req.url.text ELSE ""
        cached == IF youtube_url # ""
                  THEN get_cached_evaluation(youtube_url, db, env.lookup_fails)
                  ELSE NotCached
        age == ParseFloat(req.age.text)
        error == Rejected(req, youtube_url = "", age, env)
    IN  IF cached.found
        THEN [status |-> 200, body |-> cached.row, supabase |-> db,
              outcome |-> NoOutcome]
        ELSE IF error # ""
        THEN [status |-> StatusOf[error], body |-> ErrorBody(error),
              supabase |-> db, outcome |-> NoOutcome]
        ELSE Answer(youtube_url, db, env,
                    evaluate_video(VideoMetrics(youtube_url), age, "None",
                                   env.key_set))

----------------------------------------------------------------------------
(* Inputs.                                                                 *)

\* the raw values of the documented scenarios
ScenarioValues == {0, 100, 200, 500, 800, 1000, 2000, 3500, 5000, 10000}

MetricArgs == (DOMAIN METRIC_CONFIG) \cup {"unknown_metric"}
BandArgs == BandCodes \cup {"G9_unknown"}

Near(P) == {p + e : p \in P, e \in (-Radius)..Radius}
Between(P) == {(p + q) \div 2 : p \in P, q \in P}
Lowest(P) == CHOOSE p \in P : \A q \in P : p <= q
Highest(P) == CHOOSE p \in P : \A q \in P : q <= p

ValueArgs(name, code) ==
    IF name \in DOMAIN METRIC_CONFIG /\ code \in DOMAIN METRIC_CONFIG[name]
    THEN LET config == METRIC_CONFIG[name][code]
             P == {config[key] : key \in (DOMAIN config) \ {"direction"}} \cup {0}
         IN  Near(P) \cup Between(P) \cup ScenarioValues
               \cup {Lowest(P) - FarOut, Highest(P) + FarOut}
    ELSE ScenarioValues

AgePoints == {AGE_BANDS[i].min_age : i \in 1..Len(AGE_BANDS)}
                \cup {AGE_BANDS[i].max_age : i \in 1..Len(AGE_BANDS)}
AgeArgs == Near(AgePoints) \cup Between(AgePoints)
               \cup {Lowest(AgePoints) - FarOut, Highest(AgePoints) + FarOut}

\* metric specs with arbitrary bounds, hard bounds present or absent
Points == {10 * i : i \in 0..MaxPoint}
Optional(key, x) == IF x = -1 THEN <<>> ELSE key :> x
AnySpecs ==
    { [ideal_low |-> lo, ideal_high |-> hi, direction |-> dir]
          @@ Optional("hard_min", hmin) @@ Optional("hard_max", hmax) :
        lo \in Points, hi \in Points, hmin \in Points \cup {-1},
        hmax \in Points \cup {-1},
        dir \in {"higher_better", "lower_better", "mid"} }
\* the hard bounds that the direction of a spec reads
UsesHardMin(config) == config.direction \in {"higher_better", "mid"}
UsesHardMax(config) ==
    config.direction \in {"lower_better", "mid"} /\ "hard_max" \in DOMAIN config
HardMinOf(config) == IF "hard_min" \in DOMAIN config THEN config.hard_min ELSE 0
Ordered(config) ==
    /\ UsesHardMin(config) => HardMinOf(config) <= config.ideal_low
    /\ config.ideal_low <= config.ideal_high
    /\ UsesHardMax(config) => config.ideal_high <= config.hard_max
ZeroWidth(config) ==
    \/ UsesHardMin(config) /\ config.ideal_low = HardMinOf(config)
    \/ config.ideal_low = config.ideal_high
    \/ UsesHardMax(config) /\ config.ideal_high = config.hard_max
DegenerateSpecs == {config \in AnySpecs : ZeroWidth(config)}

\* raw metric maps: any part of the metrics of one dimension, with or
\* without the metrics of the other dimensions and a metric no dimension
\* lists, each metric at a chosen place of its spec for the band
Patterns == {"ideal_low", "ideal_high", "above", "below"}
Pick(name, code, pattern) ==
    IF name \in DOMAIN METRIC_CONFIG /\ code \in DOMAIN METRIC_CONFIG[name]
    THEN LET config == METRIC_CONFIG[name][code]
         IN  IF pattern = "ideal_low" THEN config.ideal_low
             ELSE IF pattern = "ideal_high" THEN config.ideal_high
             ELSE IF pattern = "above" THEN config.ideal_high + 1
             ELSE config.ideal_low - 1
    ELSE 100

SeqRange(seq) == {seq[i] : i \in 1..Len(seq)}
ListedMetrics == UNION {SeqRange(DIMENSIONS[i].metrics) : i \in 1..Len(DIMENSIONS)}
OtherMetricSets(dimension) ==
    { {}, {"duration_minutes"}, ListedMetrics \ SeqRange(MetricsOf(dimension)) }

RawMetricsArgs(code) ==
    { [name \in own \cup others |->
          Pick(name, code, IF name \in own THEN inside ELSE outside)] :
        own \in UNION {SUBSET SeqRange(MetricsOf(dimension)) : dimension \in DimNames},
        others \in UNION {OtherMetricSets(dimension) : dimension \in DimNames},
        inside \in Patterns, outside \in {"ideal_high", "above"} }

\* dimension score maps: every declared dimension with a coarse score, or
\* at most MaxPresent of the declared dimensions and one undeclared
\* dimension with scores around the thresholds
CoarseScores == {Fin(0), Fin(40), Fin(100)}
FineScores == {Rat(4999, 100), Fin(50), Rat(7499, 100), Fin(75)}
DimArgs == DimNames \cup {"Other"}
FullScoreMaps == [DimNames -> CoarseScores]
PartialScoreMaps ==
    UNION {[present -> FineScores] :
              present \in {some \in SUBSET DimArgs : Cardinality(some) <= MaxPresent}}
ScoreMapArgs == FullScoreMaps \cup PartialScoreMaps
\* for the recommendations, the maps of two declared dimensions and the
\* undeclared one
RecommendationScoreMaps ==
    {scores \in PartialScoreMaps : DOMAIN scores \subseteq {"Pacing", "SEL", "Other"}}

\* raw values at and just beyond the thresholds of the metric checks
ThresholdValues(name, code) ==
    IF name = "prosocial_ratio" THEN {69, 70}
    ELSE IF name = "aggression_rate" /\ ~NoConfigKey(name, code, "ideal_high")
         THEN {METRIC_CONFIG[name][code].ideal_high,
               METRIC_CONFIG[name][code].ideal_high + 1}
    ELSE IF name = "cuts_per_minute" /\ ~NoConfigKey(name, code, "hard_max")
         THEN {(METRIC_CONFIG[name][code].hard_max * 8) \div 10,
               (METRIC_CONFIG[name][code].hard_max * 8) \div 10 + 1}
    ELSE {100}
CheckedMetrics == {"aggression_rate", "cuts_per_minute", "prosocial_ratio"}
AllThresholdValues(code) ==
    UNION {ThresholdValues(name, code) : name \in CheckedMetrics}
CheckedMetricsArgs(code) ==
    UNION {{raw \in [present -> AllThresholdValues(code)] :
               \A name \in present : raw[name] \in ThresholdValues(name, code)} :
           present \in SUBSET CheckedMetrics}

\* composite scores at the label thresholds, a hundredth beside them and at
\* the ends of the range, in hundredths
DevThresholds == {3500, 5000, 6500, 8000}
BrainrotThresholds == {2000, 4000, 6000, 8000}
DevScoreArgs ==
    {Rat(n, 100) : n \in {0, 10000} \cup DevThresholds \cup {t - 1 : t \in DevThresholds}}
BrainrotIndexArgs ==
    {Rat(n, 100) : n \in {0, 10000} \cup BrainrotThresholds
                          \cup {t + 1 : t \in BrainrotThresholds}}

\* the best value of a metric spec; the midpoint of an ideal range that
\* falls between two hundredths is taken at the hundredth below or above
BestValue(config, above) ==
    IF config.direction = "higher_better" THEN config.ideal_high
    ELSE IF config.direction = "lower_better" THEN config.ideal_low
    ELSE (config.ideal_low + config.ideal_high + (IF above THEN 1 ELSE 0)) \div 2

\* what the run adds to the measured metrics (evaluate_video.py 192-193)
Durations == [duration_minutes |-> 500, duration_seconds |-> 30000]

\* every configured metric at its best value for the band
BestMetricsArgs(code) ==
    {[name \in DOMAIN METRIC_CONFIG |-> BestValue(METRIC_CONFIG[name][code], above)]
        @@ Durations : above \in BOOLEAN}

\* ages in each band, on the band limits and beyond the last band
EvaluateAges == {0, 100, 200, 250, 300, 400, 500, 600, 800, 1200}
ClientArgs == {"None", "LLMClient"}
MeasuredArgs(age) ==
    BestMetricsArgs(assign_age_band(age)) \cup BestMetricsArgs("G1_0_2") \cup {Durations}

\* one score for all six dimensions, in hundredths: the ends, the
\* thresholds and scores that are no binary fraction
EqualScoreArgs ==
    {0, 1, 10, 50, 333, 1234, 2000, 2500, 3333, 3500, 4000, 4999, 5000, 5001,
     6000, 6500, 6667, 7250, 7499, 7500, 8000, 8750, 9000, 9500, 9900, 9990,
     9999, 10000}
EqualScoreMaps ==
    {[dimension \in DimNames |-> Rat(score, 100)] : score \in EqualScoreArgs}
DoubleScoreMaps ==
    EqualScoreMaps
        \cup {[dimension \in DimNames \ {"Fantasy"} |-> Rat(9990, 100)],
              [dimension \in DimNames |->
                  IF dimension = "Pacing" THEN Rat(4999, 100) ELSE Rat(7250, 100)]}

\* query parameters: no url, an empty one and two videos; no age, an empty
\* one, ages in different bands, ages out of range and texts that are no
\* number
UrlArgs ==
    {[present |-> FALSE, text |-> ""], [present |-> TRUE, text |-> ""],
     [present |-> TRUE, text |-> "https://youtube.com/watch?v=a"],
     [present |-> TRUE, text |-> "https://youtube.com/watch?v=b"]}
AgeTexts ==
    {<<>>, <<"1">>, <<"2", ".", "5">>, <<"1", "8">>, <<"-", "1">>,
     <<"1", "8", ".", "5">>, <<"1", "0", "0">>, <<"a", "b", "c">>,
     <<"n", "a", "n">>}
AgeParamArgs ==
    {[present |-> FALSE, text |-> <<>>]}
        \cup {[present |-> TRUE, text |-> text] : text \in AgeTexts}
\* what a request meets outside the process: all well, or one thing wrong
AllWell ==
    [key_set |-> TRUE, lookup_fails |-> FALSE, save_fails |-> FALSE,
     extraction |-> "ok", outputs_video |-> TRUE]
EnvArgs ==
    {AllWell,
     [AllWell EXCEPT !.key_set = FALSE],
     [AllWell EXCEPT !.lookup_fails = TRUE],
     [AllWell EXCEPT !.save_fails = TRUE],
     [AllWell EXCEPT !.extraction = "Exception"],
     [AllWell EXCEPT !.extraction = "no_video", !.outputs_video = FALSE]}

----------------------------------------------------------------------------
(* The state machine: a call of an engine function, then its return.       *)

NoRequest == [url |-> [present |-> FALSE, text |-> ""],
              age |-> [present |-> FALSE, text |-> <<>>]]
NoResponse == [status |-> 0, body |-> [kind |-> ""]]

Idle ==
    /\ op = "start"
    /\ metric_name = "" /\ age_band = "" /\ value = 0 /\ result = NoResult
    /\ child_age = 0 /\ band = ""
    /\ raw_metrics = NoMap /\ dimension_scores = NoMap
    /\ recommendations = NoRecommendations
    /\ dev_score = NoResult /\ brainrot_index = NoResult
    /\ interpretations = NoInterpretations
    /\ llm_client = "" /\ api_key_set = FALSE /\ evaluation = NoOutcome
    /\ request = NoRequest /\ response = NoResponse

\* api.py 26-30 without the Supabase settings in the environment
NoSupabase == [configured |-> FALSE, video_eval |-> NoMap]

Init ==
    /\ METRIC_CONFIG = ConfiguredMetrics
    /\ DEV_WEIGHTS = ConfiguredDevWeights
    /\ BRAINROT_WEIGHTS = ConfiguredBrainrotWeights
    /\ supabase = NoSupabase
    /\ Idle

\* what every call of a scoring function leaves untouched
NoRun ==
    /\ llm_client' = "" /\ api_key_set' = FALSE /\ evaluation' = NoOutcome
    /\ request' = NoRequest /\ response' = NoResponse
    /\ UNCHANGED supabase

\* what every call but interpret_scores leaves untouched
NoEvaluation ==
    /\ dev_score' = NoResult /\ brainrot_index' = NoResult
    /\ interpretations' = NoInterpretations
    /\ NoRun

\* what a call of normalize_metric or assign_age_band leaves untouched
NoDimensionCall ==
    /\ raw_metrics' = NoMap /\ dimension_scores' = NoMap
    /\ recommendations' = NoRecommendations
    /\ UNCHANGED <<DEV_WEIGHTS, BRAINROT_WEIGHTS>>

\* what a call on dimensions leaves untouched
NoMetricCall ==
    /\ metric_name' = "" /\ value' = 0 /\ child_age' = 0 /\ band' = ""

\* a process started with the configured table or with a table of one
\* metric spec that has a zero-width interval
InitDegenerate ==
    /\ \/ METRIC_CONFIG = ConfiguredMetrics
       \/ \E config \in DegenerateSpecs :
             METRIC_CONFIG = ("cuts_per_minute" :> ("G3_3_5" :> config))
    /\ DEV_WEIGHTS = ConfiguredDevWeights
    /\ BRAINROT_WEIGHTS = ConfiguredBrainrotWeights
    /\ supabase = NoSupabase
    /\ Idle

CallNormalizeMetric ==
    /\ op = "start"
    /\ \E name \in MetricArgs, code \in BandArgs :
         \E raw \in ValueArgs(name, code) :
            /\ op' = "normalize_metric"
            /\ metric_name' = name
            /\ age_band' = code
            /\ value' = raw
            /\ result' = normalize_metric(name, raw, code)
            /\ child_age' = 0 /\ band' = ""
            /\ NoDimensionCall
            /\ NoEvaluation
            /\ UNCHANGED METRIC_CONFIG

CallAssignAgeBand ==
    /\ op = "start"
    /\ \E age \in AgeArgs :
            /\ op' = "assign_age_band"
            /\ child_age' = age
            /\ band' = assign_age_band(age)
            /\ metric_name' = "" /\ age_band' = "" /\ value' = 0 /\ result' = NoResult
            /\ NoDimensionCall
            /\ NoEvaluation
            /\ UNCHANGED METRIC_CONFIG

CallComputeDimensionScores ==
    /\ op = "start"
    /\ \E code \in BandArgs :
         \E raw \in RawMetricsArgs(code) :
            /\ op' = "compute_dimension_scores"
            /\ raw_metrics' = raw
            /\ age_band' = code
            /\ dimension_scores' = compute_dimension_scores(raw, code)
            /\ result' = NoResult /\ recommendations' = NoRecommendations
            /\ NoMetricCall
            /\ NoEvaluation
            /\ UNCHANGED <<METRIC_CONFIG, DEV_WEIGHTS, BRAINROT_WEIGHTS>>

CallAggregateDevScore ==
    /\ op = "start"
    /\ \E code \in BandArgs, scores \in ScoreMapArgs :
            /\ op' = "aggregate_dev_score"
            /\ dimension_scores' = scores
            /\ age_band' = code
            /\ result' = aggregate_dev_score(scores, code)
            /\ raw_metrics' = NoMap /\ recommendations' = NoRecommendations
            /\ NoMetricCall
            /\ NoEvaluation
            /\ UNCHANGED <<METRIC_CONFIG, DEV_WEIGHTS, BRAINROT_WEIGHTS>>

CallAggregateBrainrotIndex ==
    /\ op = "start"
    /\ \E code \in BandArgs, scores \in ScoreMapArgs :
            /\ op' = "aggregate_brainrot_index"
            /\ dimension_scores' = scores
            /\ age_band' = code
            /\ result' = aggregate_brainrot_index(scores, code)
            /\ raw_metrics' = NoMap /\ recommendations' = NoRecommendations
            /\ NoMetricCall
            /\ NoEvaluation
            /\ UNCHANGED <<METRIC_CONFIG, DEV_WEIGHTS, BRAINROT_WEIGHTS>>

CallGenerateRecommendations ==
    /\ op = "start"
    /\ \E code \in BandArgs, scores \in RecommendationScoreMaps :
         \E raw \in CheckedMetricsArgs(code) :
            /\ op' = "generate_recommendations"
            /\ dimension_scores' = scores
            /\ raw_metrics' = raw
            /\ age_band' = code
            /\ recommendations' = generate_recommendations(scores, raw, code)
            /\ result' = NoResult
            /\ NoMetricCall
            /\ NoEvaluation
            /\ UNCHANGED <<METRIC_CONFIG, DEV_WEIGHTS, BRAINROT_WEIGHTS>>

CallInterpretScores ==
    /\ op = "start"
    /\ \E dev \in DevScoreArgs \cup {NAN}, brainrot \in BrainrotIndexArgs \cup {NAN} :
            /\ op' = "interpret_scores"
            /\ dev_score' = dev
            /\ brainrot_index' = brainrot
            /\ interpretations' = interpret_scores(dev, brainrot)
            /\ NoRun
            /\ age_band' = "" /\ result' = NoResult
            /\ raw_metrics' = NoMap /\ dimension_scores' = NoMap
            /\ recommendations' = NoRecommendations
            /\ NoMetricCall
            /\ UNCHANGED <<METRIC_CONFIG, DEV_WEIGHTS, BRAINROT_WEIGHTS>>

\* evaluate_video run from the command line or a batch
CallEvaluateVideo ==
    /\ op = "start"
    /\ \E age \in EvaluateAges, client \in ClientArgs, key_set \in BOOLEAN :
         \E measured \in MeasuredArgs(age) :
            \E results \in {evaluate_video(measured, Age(age), client, key_set)} :
                /\ op' = "evaluate_video"
                /\ child_age' = age
                /\ llm_client' = client
                /\ api_key_set' = key_set
                /\ evaluation' = results.outcome
                /\ age_band' = results.age_band
                /\ raw_metrics' = results.raw_metrics
                /\ dimension_scores' = results.dimension_scores
                /\ dev_score' = results.development_score
                /\ brainrot_index' = results.brainrot_index
                /\ interpretations' = results.interpretations
                /\ recommendations' = results.recommendations
                /\ metric_name' = "" /\ value' = 0 /\ band' = "" /\ result' = NoResult
                /\ request' = NoRequest /\ response' = NoResponse
                /\ UNCHANGED <<METRIC_CONFIG, DEV_WEIGHTS, BRAINROT_WEIGHTS, supabase>>

\* the two aggregations as Python computes them, in doubles
CallAggregateDevScoreDouble ==
    /\ op = "start"
    /\ \E code \in BandArgs, scores \in DoubleScoreMaps :
            /\ op' = "aggregate_dev_score"
            /\ dimension_scores' = scores
            /\ age_band' = code
            /\ result' = aggregate_dev_score_double(scores, code)
            /\ raw_metrics' = NoMap /\ recommendations' = NoRecommendations
            /\ NoMetricCall
            /\ NoEvaluation
            /\ UNCHANGED <<METRIC_CONFIG, DEV_WEIGHTS, BRAINROT_WEIGHTS>>

CallAggregateBrainrotIndexDouble ==
    /\ op = "start"
    /\ \E code \in BandArgs, scores \in DoubleScoreMaps :
            /\ op' = "aggregate_brainrot_index"
            /\ dimension_scores' = scores
            /\ age_band' = code
            /\ result' = aggregate_brainrot_index_double(scores, code)
            /\ raw_metrics' = NoMap /\ recommendations' = NoRecommendations
            /\ NoMetricCall
            /\ NoEvaluation
            /\ UNCHANGED <<METRIC_CONFIG, DEV_WEIGHTS, BRAINROT_WEIGHTS>>

\* the server handles one GET /evaluate request
EvaluateGet ==
    /\ op = "start"
    /\ \E url \in UrlArgs, age \in AgeParamArgs, env \in EnvArgs :
            \E reply \in {evaluate_get([url |-> url, age |-> age], supabase, env)} :
                /\ op' = "GET /evaluate"
                /\ request' = [url |-> url, age |-> age]
                /\ response' = [status |-> reply.status, body |-> reply.body]
                /\ supabase' = reply.supabase
                /\ api_key_set' = env.key_set
                /\ evaluation' = reply.outcome
                /\ llm_client' = ""
                /\ metric_name' = "" /\ age_band' = "" /\ value' = 0
                /\ result' = NoResult /\ child_age' = 0 /\ band' = ""
                /\ raw_metrics' = NoMap /\ dimension_scores' = NoMap
                /\ recommendations' = NoRecommendations
                /\ dev_score' = NoResult /\ brainrot_index' = NoResult
                /\ interpretations' = NoInterpretations
                /\ UNCHANGED <<METRIC_CONFIG, DEV_WEIGHTS, BRAINROT_WEIGHTS>>

\* the caller takes the result; the engine keeps nothing between calls
Return ==
    /\ op # "start"
    /\ op' = "start"
    /\ metric_name' = "" /\ age_band' = "" /\ value' = 0 /\ result' = NoResult
    /\ child_age' = 0 /\ band' = ""
    /\ raw_metrics' = NoMap /\ dimension_scores' = NoMap
    /\ recommendations' = NoRecommendations
    /\ NoEvaluation
    /\ UNCHANGED <<METRIC_CONFIG, DEV_WEIGHTS, BRAINROT_WEIGHTS>>

\* the calls on single metrics and ages
NextNormalize == CallNormalizeMetric \/ CallAssignAgeBand \/ Return

Next ==
    \/ CallNormalizeMetric
    \/ CallAssignAgeBand
    \/ CallComputeDimensionScores
    \/ CallAggregateDevScore
    \/ CallAggregateBrainrotIndex
    \/ CallGenerateRecommendations
    \/ CallInterpretScores
    \/ CallEvaluateVideo
    \/ Return

Spec == Init /\ [][Next]_vars

\* the aggregations in double arithmetic
NextDouble == CallAggregateDevScoreDouble \/ CallAggregateBrainrotIndexDouble \/ Return

SpecDouble == Init /\ [][NextDouble]_vars

\* the API server, started with or without the Supabase settings
InitApi ==
    /\ METRIC_CONFIG = ConfiguredMetrics
    /\ DEV_WEIGHTS = ConfiguredDevWeights
    /\ BRAINROT_WEIGHTS = ConfiguredBrainrotWeights
    /\ supabase \in {NoSupabase, [configured |-> TRUE, video_eval |-> NoMap]}
    /\ Idle

NextApi == EvaluateGet \/ Return

SpecApi == InitApi /\ [][NextApi]_vars
SpecDegenerate == InitDegenerate /\ [][NextNormalize]_vars

----------------------------------------------------------------------------
(* Properties.                                                             *)

Called == op = "normalize_metric"
Configured ==
    /\ metric_name \in DOMAIN METRIC_CONFIG
    /\ age_band \in DOMAIN METRIC_CONFIG[metric_name]
CalledOn(direction) ==
    Called /\ Configured /\ METRIC_CONFIG[metric_name][age_band].direction = direction
CalledWith(name, code, raw) ==
    Called /\ metric_name = name /\ age_band = code /\ value = raw

Lo == METRIC_CONFIG[metric_name][age_band].ideal_low
Hi == METRIC_CONFIG[metric_name][age_band].ideal_high
HardMin == HardMinOf(METRIC_CONFIG[metric_name][age_band])
HasHardMax == "hard_max" \in DOMAIN METRIC_CONFIG[metric_name][age_band]
HardMax == METRIC_CONFIG[metric_name][age_band].hard_max

IsNumber(r) == r.k = "num"
\* r = base/10 + (slope/10) * (num / den), for den > 0
IsLinear(r, base, slope, num, den) ==
    r = Rat(base * den + slope * num, 10 * den)
\* r rounded to four decimals, in ten-thousandths
ToFour(r) == (2 * 10000 * r.n + r.d) \div (2 * r.d)

\* C1: for every configured (metric, age band) and every finite raw value the
\* score returned by normalize_metric is a number in [0, 1], also for the
\* specs that leave hard_min or hard_max at its default.
C1_ScoreInUnitInterval ==
    Called /\ Configured
        => IsNumber(result) /\ 0 <= result.n /\ result.n <= result.d

\* C2: assign_age_band returns the first band in declared order G1_0_2,
\* G2_2_3, G3_3_5, G4_5_8 with min_age <= age < max_age, and the last
\* declared band when no band matches.
C2_FirstMatchOrLastBand ==
    /\ [i \in 1..Len(AGE_BANDS) |-> AGE_BANDS[i].code]
           = <<"G1_0_2", "G2_2_3", "G3_3_5", "G4_5_8">>
    /\ op = "assign_age_band" =>
         LET Matching == {i \in 1..Len(AGE_BANDS) :
                             AGE_BANDS[i].min_age <= child_age
                               /\ child_age < AGE_BANDS[i].max_age}
         IN  IF Matching = {}
             THEN band = AGE_BANDS[Len(AGE_BANDS)].code
             ELSE \E i \in Matching :
                     /\ \A j \in Matching : i <= j
                     /\ band = AGE_BANDS[i].code

\* an age below every band falls back to the last band
C2_Witness ==
    op = "assign_age_band" /\ child_age < 0 /\ band = "G4_5_8"

C4_HigherBetterFormula ==
    /\ CalledOn("higher_better") =>
         /\ value >= Hi => result = Fin(1)
         /\ (value < Hi /\ value <= HardMin) => result = Fin(0)
         /\ (HardMin < value /\ value < Lo /\ value < Hi)
                => IsLinear(result, 0, 8, value - HardMin, Lo - HardMin)
         /\ (Lo <= value /\ value < Hi /\ HardMin < value)
                => IsLinear(result, 8, 2, value - Lo, Hi - Lo)
         /\ (Lo <= value /\ value <= Hi) => FLe(P08, result)
    /\ CalledWith("avg_shot_length", "G1_0_2", 5000) => ToFour(result) = 8913
    /\ CalledWith("avg_shot_length", "G1_0_2", 10000) => result = Fin(1)
    /\ CalledWith("avg_shot_length", "G1_0_2", 200) => result = Fin(0)
    /\ CalledWith("avg_shot_length", "G1_0_2", 500) => result = Rat(4, 10)

\* the documented scenario inside the ideal range
C4_Witness ==
    CalledWith("avg_shot_length", "G1_0_2", 5000) /\ result = Rat(41, 46)

\* C5: for a metric configured with direction lower_better, normalize_metric
\* returns 1.0 when v <= lo, 0.0 when v >= hard_max,
\* 0.8*(hard_max - v)/(hard_max - hi) when hi < v < hard_max and
\* 0.8 + 0.2*(hi - v)/(hi - lo) when lo < v <= hi. sfx_rate in G1_0_2 maps
\* 1 to 0.9, 5 to 0.4, 10 to 0.0 and 0 to 1.0.
C5_LowerBetterFormula ==
    /\ CalledOn("lower_better") =>
         /\ value <= Lo => result = Fin(1)
         /\ (value > Lo /\ HasHardMax /\ value >= HardMax) => result = Fin(0)
         /\ (Hi < value /\ value > Lo /\ HasHardMax /\ value < HardMax)
                => IsLinear(result, 0, 8, HardMax - value, HardMax - Hi)
         /\ (Lo < value /\ value <= Hi /\ (HasHardMax => value < HardMax))
                => IsLinear(result, 8, 2, Hi - value, Hi - Lo)
    /\ CalledWith("sfx_rate", "G1_0_2", 100) => result = Rat(9, 10)
    /\ CalledWith("sfx_rate", "G1_0_2", 500) => result = Rat(4, 10)
    /\ CalledWith("sfx_rate", "G1_0_2", 1000) => result = Fin(0)
    /\ CalledWith("sfx_rate", "G1_0_2", 0) => result = Fin(1)

\* the documented scenario between ideal_high and hard_max
C5_Witness ==
    CalledWith("sfx_rate", "G1_0_2", 500) /\ result = Rat(4, 10)

\* the score of another raw value under the metric and band of the call
Score(raw) == normalize_metric(metric_name, raw, age_band)

\* the value at a point of the linear piece through two points at distance
\* one and two from it
Extend(near, far) == FSub(FMul(Fin(2), near), far)

\* the bounds of the configured spec that its direction reads
BoundaryPoints ==
    {Lo, Hi}
      \cup (IF UsesHardMin(METRIC_CONFIG[metric_name][age_band]) THEN {HardMin} ELSE {})
      \cup (IF UsesHardMax(METRIC_CONFIG[metric_name][age_band]) THEN {HardMax} ELSE {})

\* C6: for every configured (metric, age band), the score at ideal_low,
\* ideal_high, hard_min and hard_max equals the value that the piece just
\* below and the piece just above take at that point: no jump at a bound.
C6_NoJumpAtBoundaries ==
    (Called /\ Configured /\ value \in BoundaryPoints) =>
        /\ result = Extend(Score(value - 1), Score(value - 2))
        /\ result = Extend(Score(value + 1), Score(value + 2))

\* C7: for every configured (metric, age band) with direction higher_better
\* the score is non-decreasing in the raw value, and with direction
\* lower_better it is non-increasing.
C7_Monotone ==
    /\ CalledOn("higher_better") =>
         \A other \in ValueArgs(metric_name, age_band) :
            value <= other => FLe(result, Score(other))
    /\ CalledOn("lower_better") =>
         \A other \in ValueArgs(metric_name, age_band) :
            value <= other => FLe(Score(other), result)

\* a lower_better value strictly inside the ideal range, scored between the
\* scores of the values around it
C7_Witness ==
    /\ CalledOn("lower_better") /\ Lo < value /\ value < Hi
    /\ FLt(P08, result) /\ FLt(result, Fin(1))
    /\ FLt(Score(value + 1), result) /\ FLt(result, Score(value - 1))

\* C8: for every configured (metric, age band) with direction mid the score
\* is non-decreasing below ideal_low, exactly 1.0 on [ideal_low, ideal_high]
\* and non-increasing above ideal_high.
C8_MidShape ==
    CalledOn("mid") =>
        /\ (Lo <= value /\ value <= Hi) => result = Fin(1)
        /\ \A other \in ValueArgs(metric_name, age_band) :
              /\ (value <= other /\ other < Lo) => FLe(result, Score(other))
              /\ (Hi < value /\ value <= other) => FLe(Score(other), result)

\* C9: normalize_metric returns the neutral 0.5 whenever the metric is not in
\* the metric table or has no entry for the age band, for any raw value.
C9_NeutralWhenUnconfigured ==
    (Called /\ ~Configured) => result = Half

\* a configured metric asked for a band it has no entry for
C9_Witness ==
    /\ Called /\ metric_name \in DOMAIN METRIC_CONFIG
    /\ age_band \notin DOMAIN METRIC_CONFIG[metric_name]
    /\ value # 0 /\ result = Rat(1, 2)

\* the raw value lies at a zero-width interval of the spec or beyond it on
\* the side of the hard bound
OnDegenerateSide(config, raw) ==
    \/ UsesHardMin(config) /\ config.ideal_low = HardMinOf(config)
         /\ raw <= config.ideal_low
    \/ config.ideal_low = config.ideal_high /\ raw = config.ideal_low
    \/ UsesHardMax(config) /\ config.ideal_high = config.hard_max
         /\ raw >= config.ideal_high

\* C10 as stated: for a spec with a zero-width interval normalize_metric
\* never divides by zero and, for any raw value, the score it returns is the
\* boundary value 0.0 or 1.0 (calls whose result is not a number because
\* hard_max is infinite, as in C1, are left aside).
C10_AlwaysBoundaryValue ==
    (Called /\ Configured /\ ZeroWidth(METRIC_CONFIG[metric_name][age_band])) =>
        /\ result.k # "ZeroDivisionError"
        /\ IsNumber(result) => result \in {Fin(0), Fin(1)}

\* C10 amended: for a spec with a zero-width interval normalize_metric never
\* divides by zero for any raw value; with the bounds in order, a value at
\* the degenerate point or beyond it on the hard-bound side gets the
\* boundary value 0.0 or 1.0 (other values are scored by the other pieces).
C10_NoDivisionFault ==
    (Called /\ Configured /\ ZeroWidth(METRIC_CONFIG[metric_name][age_band])) =>
        /\ result.k # "ZeroDivisionError"
        /\ (Ordered(METRIC_CONFIG[metric_name][age_band])
              /\ OnDegenerateSide(METRIC_CONFIG[metric_name][age_band], value))
                => result \in {Fin(0), Fin(1)}

\* a higher_better spec with ideal_low = ideal_high, called at that point
C10_Witness ==
    /\ CalledOn("higher_better") /\ Lo = Hi /\ HardMin < Lo /\ value = Lo
    /\ result = Fin(1)

----------------------------------------------------------------------------
(* Dimension scores.                                                       *)

Computed == op = "compute_dimension_scores"

\* the listed metrics of the dimension that raw_metrics holds
PresentOf(dimension) == SeqRange(MetricsOf(dimension)) \cap DOMAIN raw_metrics

\* 100 times the arithmetic mean of the normalized scores of the present
\* listed metrics
MeanOfPresent(dimension) ==
    LET present == PresentOf(dimension)
        normalized == [name \in present |->
                          normalize_metric(name, raw_metrics[name], age_band)]
    IN  FMul(FDiv(SumMap(normalized, present), Fin(Cardinality(present))), Fin(100))

Restrict(map, keys) == [key \in (DOMAIN map) \cap keys |-> map[key]]

\* C11: each dimension's score is 100 times the arithmetic mean of the
\* normalized scores of exactly its listed metrics present in raw_metrics
\* (an absent listed metric is in neither the sum nor the count), and the
\* metrics that no dimension lists change no score.
C11_MeanOfPresentMetrics ==
    Computed =>
        /\ \A dimension \in DimNames :
              PresentOf(dimension) # {} =>
                  dimension_scores[dimension] = MeanOfPresent(dimension)
        /\ dimension_scores =
              compute_dimension_scores(Restrict(raw_metrics, ListedMetrics), age_band)

\* a dimension with some but not all of its metrics present, next to a
\* metric no dimension lists, with a score that is not a default
C11_Witness ==
    /\ Computed
    /\ age_band \in BandCodes
    /\ "duration_minutes" \in DOMAIN raw_metrics
    /\ \E dimension \in DimNames :
          /\ Cardinality(PresentOf(dimension)) >= 2
          /\ Cardinality(PresentOf(dimension)) < Len(MetricsOf(dimension))
          /\ IsNumber(dimension_scores[dimension])
          /\ dimension_scores[dimension] \notin {Fin(0), Fin(50), Fin(100)}

\* C12: a dimension none of whose listed metrics is in raw_metrics scores
\* exactly 50.0, in every age band and whatever the other dimensions hold.
C12_EmptyDimensionIsNeutral ==
    Computed =>
        \A dimension \in DimNames :
            PresentOf(dimension) = {} => dimension_scores[dimension] = Fin(50)

\* one dimension without metrics while another dimension has metrics and a
\* score other than 50
C12_Witness ==
    /\ Computed
    /\ \E empty \in DimNames, other \in DimNames :
          /\ PresentOf(empty) = {}
          /\ dimension_scores[empty] = Fin(50)
          /\ PresentOf(other) # {}
          /\ dimension_scores[other] # Fin(50)

\* C13: for finite raw metrics and any age band the result has an entry
\* for each of the six declared dimensions, each a number in [0, 100].
C13_DimensionScoresInRange ==
    Computed =>
        /\ DOMAIN dimension_scores = DimNames
        /\ Cardinality(DimNames) = 6
        /\ \A dimension \in DimNames :
              /\ IsNumber(dimension_scores[dimension])
              /\ FLe(Fin(0), dimension_scores[dimension])
              /\ FLe(dimension_scores[dimension], Fin(100))

----------------------------------------------------------------------------
(* Composite scores.                                                       *)

DevCalled == op = "aggregate_dev_score"
BrainrotCalled == op = "aggregate_brainrot_index"

\* the sum over the weighted dimensions of weight times term, 0 for a
\* dimension without a term
WeightedSum(weights, terms) ==
    SumMap([dimension \in DOMAIN weights |->
               IF dimension \in DOMAIN terms
               THEN FMul(weights[dimension], terms[dimension])
               ELSE Fin(0)],
           DOMAIN weights)

Profile(table) ==
    [dimension \in DOMAIN table[age_band] |-> Rat(table[age_band][dimension], 100)]
EqualWeights == [dimension \in DimNames |-> Rat(1, Cardinality(DimNames))]

\* 100 - score, for the dimensions that have a score
Risk ==
    [dimension \in DOMAIN dimension_scores |->
        FSub(Fin(100), dimension_scores[dimension])]
\* 100 - score for the declared dimensions that have a score, 50 for the
\* other declared dimensions
NeutralRisk ==
    [dimension \in DimNames |->
        IF dimension \in DOMAIN dimension_scores
        THEN FSub(Fin(100), dimension_scores[dimension])
        ELSE Fin(50)]

\* C14: the Developmental Score is the sum over the band's weight profile
\* of weight times dimension score; a weighted dimension without a score
\* and a scored dimension without a weight contribute 0, and the weights
\* are not renormalized.
C14_DevIsWeightedSum ==
    (DevCalled /\ age_band \in DOMAIN DEV_WEIGHTS) =>
        result = WeightedSum(Profile(DEV_WEIGHTS), dimension_scores)

\* a profile with a weighted dimension that has no score, a scored
\* dimension that has no weight, and one that has both
C14_Witness ==
    /\ DevCalled
    /\ age_band \in DOMAIN DEV_WEIGHTS
    /\ "Other" \in DOMAIN dimension_scores
    /\ \E dimension \in DOMAIN DEV_WEIGHTS[age_band] :
          dimension \notin DOMAIN dimension_scores
    /\ \E dimension \in DOMAIN DEV_WEIGHTS[age_band] :
          dimension \in DOMAIN dimension_scores
    /\ IsNumber(result) /\ result # Fin(0)

\* C15 as stated: the Brainrot Index is the sum over the band's weight
\* profile of weight times (100 - score), a weighted dimension without a
\* score contributing 0.
C15_MissingContributesZero ==
    (BrainrotCalled /\ age_band \in DOMAIN BRAINROT_WEIGHTS) =>
        result = WeightedSum(Profile(BRAINROT_WEIGHTS), Risk)

\* C15: the Brainrot Index is the sum over the band's weight profile of
\* weight times risk, where the risk of a declared dimension is
\* 100 - score, and the neutral 50 when the dimension has no score.
C15_MissingIsNeutral ==
    (BrainrotCalled /\ age_band \in DOMAIN BRAINROT_WEIGHTS) =>
        result = WeightedSum(Profile(BRAINROT_WEIGHTS), NeutralRisk)

\* a weighted dimension without a score, and a scored one, in the index
C15_Witness ==
    /\ BrainrotCalled
    /\ age_band \in DOMAIN BRAINROT_WEIGHTS
    /\ \E dimension \in DOMAIN BRAINROT_WEIGHTS[age_band] :
          /\ dimension \notin DOMAIN dimension_scores
          /\ BRAINROT_WEIGHTS[age_band][dimension] > 0
    /\ \E dimension \in DOMAIN BRAINROT_WEIGHTS[age_band] :
          /\ dimension \in DOMAIN dimension_scores
          /\ dimension_scores[dimension] # Fin(50)
    /\ IsNumber(result)
    /\ result # WeightedSum(Profile(BRAINROT_WEIGHTS), Risk)

\* C16: for an age band without a weight profile both composite scores
\* weigh every declared dimension by 1/6, return a number, and leave the
\* configured weight tables as they were.
C16_EqualWeightFallback ==
    /\ (DevCalled /\ age_band \notin DOMAIN DEV_WEIGHTS) =>
          /\ result = WeightedSum(EqualWeights, dimension_scores)
          /\ IsNumber(result)
    /\ (BrainrotCalled /\ age_band \notin DOMAIN BRAINROT_WEIGHTS) =>
          /\ result = WeightedSum(EqualWeights, NeutralRisk)
          /\ IsNumber(result)
    /\ (DevCalled \/ BrainrotCalled) =>
          /\ Cardinality(DimNames) = 6
          /\ DEV_WEIGHTS = ConfiguredDevWeights
          /\ BRAINROT_WEIGHTS = ConfiguredBrainrotWeights

\* a Developmental Score for a band without a profile, from scores of all
\* six dimensions that are not all the same
C16_Witness ==
    /\ DevCalled
    /\ age_band \notin DOMAIN DEV_WEIGHTS
    /\ DOMAIN dimension_scores = DimNames
    /\ \E one \in DimNames, other \in DimNames :
          dimension_scores[one] # dimension_scores[other]
    /\ IsNumber(result) /\ result \notin {Fin(0), Fin(100)}

InRange(score) == IsNumber(score) /\ FLe(Fin(0), score) /\ FLe(score, Fin(100))

\* C17: in each of the four configured age bands, when every declared
\* dimension has a score in [0, 100], the Developmental Score and the
\* Brainrot Index are in [0, 100].
C17_CompositeInRange ==
    ( /\ DevCalled \/ BrainrotCalled
      /\ age_band \in BandCodes
      /\ DimNames \subseteq DOMAIN dimension_scores
      /\ \A dimension \in DimNames : InRange(dimension_scores[dimension]) )
    => InRange(result)

\* every dimension at 100 in a configured band: the Developmental Score
\* is at the upper end of the range
C17_Witness ==
    /\ DevCalled
    /\ age_band \in BandCodes
    /\ DOMAIN dimension_scores = DimNames
    /\ \A dimension \in DimNames : dimension_scores[dimension] = Fin(100)
    /\ result = Fin(100)

----------------------------------------------------------------------------
(* Recommendations.                                                        *)

Recommended == op = "generate_recommendations"

\* C18: for an age band or a metric name that is not configured no engine
\* function raises; each returns its documented neutral default.
C18_NeverRaisesOnUnknownConfig ==
    /\ (Called /\ ~Configured) => result = Half
    /\ (Computed /\ age_band \notin BandCodes) =>
          \A dimension \in DimNames : dimension_scores[dimension] = Fin(50)
    /\ ((DevCalled \/ BrainrotCalled) /\ age_band \notin BandCodes) =>
          IsNumber(result)
    /\ (Recommended /\ age_band \notin BandCodes) =>
          recommendations.raised = ""

Listed(list, dimension) == \E entry \in list : entry[2] = dimension

\* C19: a dimension is listed as a strength exactly when its score is
\* >= 75 and as a concern exactly when its score is < 50; never as both,
\* and as neither for a score in [50, 75).
C19_DimensionThresholds ==
    Recommended =>
        \A dimension \in DOMAIN dimension_scores :
            /\ Listed(recommendations.strengths, dimension)
                  <=> FLe(Fin(75), dimension_scores[dimension])
            /\ Listed(recommendations.concerns, dimension)
                  <=> FLt(dimension_scores[dimension], Fin(50))
            /\ ~ ( /\ Listed(recommendations.strengths, dimension)
                   /\ Listed(recommendations.concerns, dimension) )

Holds(name) == name \in DOMAIN raw_metrics

----------------------------------------------------------------------------
(* Interpretations.                                                        *)

Interpreted == op = "interpret_scores"

DevLabels ==
    [Excellent |-> "Excellent - Highly developmentally appropriate",
     Good |-> "Good - Generally appropriate with some areas for improvement",
     Fair |-> "Fair - Some concerning elements, use with caution",
     Poor |-> "Poor - Multiple developmental concerns",
     VeryPoor |-> "Very Poor - Not recommended for this age group"]
BrainrotLabels ==
    [VeryLow |-> "Very Low Risk - Safe and healthy content",
     Low |-> "Low Risk - Minor concerns, generally safe",
     Moderate |-> "Moderate Risk - Some problematic elements",
     High |-> "High Risk - Multiple red flags, limit exposure",
     VeryHigh |-> "Very High Risk - Strongly discourage viewing"]

AtLeast(score, threshold) == FLe(Fin(threshold), score)
AtMost(score, threshold) == FLe(score, Fin(threshold))

\* C21: the developmental label is the one of five whose inclusive lower
\* threshold (80, 65, 50, 35, none) is the highest the score reaches, the
\* brainrot label the one of five whose inclusive upper threshold (20, 40,
\* 60, 80, none) is the lowest the index stays under, and each label
\* depends on its own score only.
C21_FiveLabels ==
    Interpreted =>
        LET dev == dev_score
            risk == brainrot_index
            label == interpretations.developmental
            risk_label == interpretations.brainrot
        IN  /\ label \in {DevLabels[key] : key \in DOMAIN DevLabels}
            /\ label = DevLabels.Excellent <=> AtLeast(dev, 80)
            /\ label = DevLabels.Good <=> AtLeast(dev, 65) /\ ~AtLeast(dev, 80)
            /\ label = DevLabels.Fair <=> AtLeast(dev, 50) /\ ~AtLeast(dev, 65)
            /\ label = DevLabels.Poor <=> AtLeast(dev, 35) /\ ~AtLeast(dev, 50)
            /\ label = DevLabels.VeryPoor <=> ~AtLeast(dev, 35)
            /\ risk_label \in {BrainrotLabels[key] : key \in DOMAIN BrainrotLabels}
            /\ risk_label = BrainrotLabels.VeryLow <=> AtMost(risk, 20)
            /\ risk_label = BrainrotLabels.Low <=> AtMost(risk, 40) /\ ~AtMost(risk, 20)
            /\ risk_label = BrainrotLabels.Moderate
                  <=> AtMost(risk, 60) /\ ~AtMost(risk, 40)
            /\ risk_label = BrainrotLabels.High <=> AtMost(risk, 80) /\ ~AtMost(risk, 60)
            /\ risk_label = BrainrotLabels.VeryHigh <=> ~AtMost(risk, 80)
            /\ \A other \in DevScoreArgs \cup BrainrotIndexArgs :
                  /\ interpret_scores(dev, other).developmental = label
                  /\ interpret_scores(other, risk).brainrot = risk_label

\* both scores exactly at a threshold
C21_Witness ==
    /\ Interpreted
    /\ dev_score = Fin(80) /\ brainrot_index = Fin(80)
    /\ interpretations.developmental = DevLabels.Excellent
    /\ interpretations.brainrot = BrainrotLabels.High

Rank(overall) ==
    IF overall = "Recommended" THEN 2
    ELSE IF overall = "Acceptable with supervision" THEN 1
    ELSE 0

\* C22: overall is "Recommended" exactly when dev >= 65 and brainrot <= 40,
\* otherwise "Acceptable with supervision" exactly when dev >= 50 and
\* brainrot <= 60, otherwise "Not recommended"; a higher dev or a lower
\* brainrot never gives a worse overall label.
C22_OverallRule ==
    Interpreted =>
        LET recommended == AtLeast(dev_score, 65) /\ AtMost(brainrot_index, 40)
            acceptable == AtLeast(dev_score, 50) /\ AtMost(brainrot_index, 60)
            overall == interpretations.overall
        IN  /\ overall = "Recommended" <=> recommended
            /\ overall = "Acceptable with supervision" <=> ~recommended /\ acceptable
            /\ overall = "Not recommended" <=> ~recommended /\ ~acceptable
            /\ \A dev \in DevScoreArgs, brainrot \in BrainrotIndexArgs :
                  (FLe(dev_score, dev) /\ FLe(brainrot, brainrot_index)) =>
                      Rank(interpret_scores(dev, brainrot).overall) >= Rank(overall)

\* a good developmental score held back by a brainrot index just above 40
C22_Witness ==
    /\ Interpreted
    /\ dev_score = Fin(80) /\ brainrot_index = Rat(4001, 100)
    /\ interpretations.overall = "Acceptable with supervision"

----------------------------------------------------------------------------
(* evaluate_video.                                                         *)

Evaluated == op = "evaluate_video"
Completed == Evaluated /\ evaluation.raised = ""

\* raw is at the best value of the spec: ideal_high when higher is better,
\* ideal_low when lower is better, else within half a hundredth of the
\* middle of the ideal range
AtBest(config, raw) ==
    IF config.direction = "higher_better" THEN raw = config.ideal_high
    ELSE IF config.direction = "lower_better" THEN raw = config.ideal_low
    ELSE Abs(2 * raw - (config.ideal_low + config.ideal_high)) <= 1

AllAtBest ==
    \A name \in DOMAIN METRIC_CONFIG :
        /\ name \in DOMAIN raw_metrics
        /\ age_band \in DOMAIN METRIC_CONFIG[name]
        /\ AtBest(METRIC_CONFIG[name][age_band], raw_metrics[name])

\* C23: in each configured age band, an evaluation whose raw_metrics hold
\* every configured metric at its best value gives every dimension the
\* score 100, the Developmental Score 100, the Brainrot Index 0 and the
\* overall label "Recommended".
C23_BestMetricsScoreBest ==
    (Completed /\ age_band \in BandCodes /\ AllAtBest) =>
        /\ \A dimension \in DimNames : dimension_scores[dimension] = Fin(100)
        /\ dev_score = Fin(100)
        /\ brainrot_index = Fin(0)
        /\ interpretations.overall = "Recommended"

\* the best metrics of a band whose best values differ from the first
\* band's, evaluated for an age in that band
C23_Witness ==
    /\ Completed
    /\ age_band = "G3_3_5"
    /\ child_age = 400
    /\ AllAtBest
    /\ raw_metrics \notin BestMetricsArgs("G1_0_2")
    /\ dev_score = Fin(100)

\* C29: evaluate_video called without an LLM client completes, takes the
\* semantic metrics from the heuristic path and neither constructs nor
\* calls an LLM client.
C29_FastModeWithoutLLM ==
    (Evaluated /\ llm_client = "None") =>
        /\ evaluation.raised = ""
        /\ evaluation.semantic = "heuristic"
        /\ ~evaluation.llm_constructed

----------------------------------------------------------------------------
(* The configured tables.                                                  *)

\* the bands whose range holds the age
BandsHolding(age) ==
    {i \in 1..Len(AGE_BANDS) :
        AGE_BANDS[i].min_age <= age /\ age < AGE_BANDS[i].max_age}

\* C24: the configured age bands start at 0 and each band ends where the
\* next one starts; hence a non-negative age is in the range of at most
\* one band, and an age in [0, 8) in the range of exactly one.
C24_BandsPartitionAges ==
    /\ AGE_BANDS[1].min_age = 0
    /\ \A i \in 1..(Len(AGE_BANDS) - 1) :
          AGE_BANDS[i].max_age = AGE_BANDS[i + 1].min_age
    /\ \A i \in 1..Len(AGE_BANDS) : AGE_BANDS[i].min_age < AGE_BANDS[i].max_age
    /\ (op = "assign_age_band" /\ child_age >= 0) =>
          /\ Cardinality(BandsHolding(child_age)) <= 1
          /\ child_age < AGE_BANDS[Len(AGE_BANDS)].max_age =>
                Cardinality(BandsHolding(child_age)) = 1
          /\ \A i \in BandsHolding(child_age) : band = AGE_BANDS[i].code

\* an age on the limit between two bands, held by the upper band only
C24_Witness ==
    /\ op = "assign_age_band"
    /\ child_age = AGE_BANDS[2].max_age
    /\ BandsHolding(child_age) = {3}
    /\ band = AGE_BANDS[3].code

\* hard_min and hard_max with the defaults of normalize_metric
HardMinDefaulted(config) == Get(config, "hard_min", Fin(0))
HardMaxDefaulted(config) == Get(config, "hard_max", INF)

\* C25: every configured metric spec has ideal_low <= ideal_high, its
\* hard_min (0 when absent) strictly below ideal_low when the direction is
\* higher_better or mid, and its hard_max (+infinity when absent) strictly
\* above ideal_high when the direction is lower_better or mid.
C25_SpecsWellOrdered ==
    \A name \in DOMAIN METRIC_CONFIG :
        \A code \in DOMAIN METRIC_CONFIG[name] :
            LET config == METRIC_CONFIG[name][code]
            IN  /\ config.ideal_low <= config.ideal_high
                /\ config.direction \in {"higher_better", "mid"} =>
                      FLt(HardMinDefaulted(config), Fin(config.ideal_low))
                /\ config.direction \in {"lower_better", "mid"} =>
                      FLt(Fin(config.ideal_high), HardMaxDefaulted(config))

\* a request handled by GET /evaluate, and the age it asks for
Requested == op = "GET /evaluate"
RequestedAge == ParseFloat(request.age.text)
ValidAge ==
    /\ request.age.present /\ request.age.text # <<>>
    /\ RequestedAge.k = "num"
    /\ RequestedAge.v >= 0 /\ RequestedAge.v <= 1800
UrlMissing == ~request.url.present

\* C26: GET /evaluate answers 400 whenever the age parameter is missing,
\* negative, too high or not a number, for any url and whatever requests
\* came before.
C26_InvalidAgeIs400 == Requested /\ ~ValidAge => response.status = 400

\* C27: GET /evaluate answers 400 when the url parameter is missing, even
\* when a valid age is given.
C27_MissingUrlIs400 == Requested /\ UrlMissing /\ ValidAge => response.status = 400

\* the age band and the development score that a 200 body reports
BodyAgeBand(body) ==
    IF body.kind = "cached" THEN body.age_band ELSE body.metadata.age_band
BodyDevScore(body) ==
    IF body.kind = "cached" THEN body.dev_score ELSE body.overall_scores.development_score

\* C28: a 200 response to a request for (url, age) reports the age band
\* that assign_age_band gives for the requested age and the scores of the
\* video computed for that band, never a result cached for the same url
\* under another age.
C28_ResponseForRequestedAge ==
    Requested /\ request.url.present /\ ValidAge /\ response.status = 200 =>
        LET code == assign_age_band_float(RequestedAge)
            measured == VideoMetrics(request.url.text)
        IN  /\ BodyAgeBand(response.body) = code
            /\ BodyDevScore(response.body) =
                   aggregate_dev_score(compute_dimension_scores(measured, code), code)

\* a call with the same score for all six dimensions in a configured band
EqualScores ==
    /\ DOMAIN dimension_scores = DimNames
    /\ \A a, b \in DimNames : dimension_scores[a] = dimension_scores[b]
    /\ age_band \in BandCodes
TheScore == DScore(dimension_scores[DIMENSIONS[1].name])
One == DLiteral(1, 1)
Hundred == DLiteral(100, 1)

\* the profile of every configured band has just the six declared
\* dimensions, weights that are not negative, and configured decimals that
\* add up to one
ProfilesDeclared(table) ==
    /\ DOMAIN table = BandCodes
    /\ \A code \in BandCodes :
          /\ DOMAIN table[code] = DimNames
          /\ \A dimension \in DimNames : table[code][dimension] >= 0
          /\ SumMap([dimension \in DimNames |-> Rat(table[code][dimension], 100)],
                    DimNames) = Fin(1)

\* sum(weights.values()) of every configured profile is the double x
\* exactly (exact) or to within 2^-50
ProfileSums(table, exact) ==
    \A code \in BandCodes :
        LET total == DSum(DWeightsFor(table, code), Len(DIMENSIONS))
        IN  IF exact THEN total = One ELSE DWithin(total, One, -50)

\* C30 as stated: in each of the four configured bands both weight profiles
\* are non-negative weights over exactly the six declared dimensions that
\* sum to 1.0, and with all six scores equal to s aggregate_dev_score
\* returns s and aggregate_brainrot_index returns 100 - s.
C30_EqualScoresExactly ==
    /\ ProfilesDeclared(DEV_WEIGHTS) /\ ProfilesDeclared(BRAINROT_WEIGHTS)
    /\ ProfileSums(DEV_WEIGHTS, TRUE) /\ ProfileSums(BRAINROT_WEIGHTS, TRUE)
    /\ op = "aggregate_dev_score" /\ EqualScores => result = TheScore
    /\ op = "aggregate_brainrot_index" /\ EqualScores => result = DSub(Hundred, TheScore)

\* C30, amended: the configured decimals of each profile are non-negative,
\* cover exactly the six declared dimensions and add up to one; the float
\* sum of a profile, and with six equal scores s the results of
\* aggregate_dev_score and aggregate_brainrot_index, are 1.0, s and 100 - s
\* up to floating-point rounding (the sum within 2^-50, the results within
\* 2^-40).
C30_EqualScoresUpToRounding ==
    /\ ProfilesDeclared(DEV_WEIGHTS) /\ ProfilesDeclared(BRAINROT_WEIGHTS)
    /\ ProfileSums(DEV_WEIGHTS, FALSE) /\ ProfileSums(BRAINROT_WEIGHTS, FALSE)
    /\ op = "aggregate_dev_score" /\ EqualScores => DWithin(result, TheScore, -40)
    /\ op = "aggregate_brainrot_index" /\ EqualScores =>
          DWithin(result, DSub(Hundred, TheScore), -40)

\* six scores of 99.9 in G1_0_2, whose sum is not 99.9 but 99.90000000000002
C30_Witness ==
    /\ op = "aggregate_dev_score" /\ EqualScores
    /\ age_band = "G1_0_2"
    /\ dimension_scores["Pacing"] = Rat(9990, 100)
    /\ result # TheScore
    /\ DWithin(result, TheScore, -40)

====
